---- MODULE Spec2Model ----
(***************************************************************************)
(* A model of linear-engine: the sync reconciliation engine                *)
(* (src/linear/sync.ts) running against a remote tracker reached through   *)
(* the LinearApiClient (src/linear/client.ts).                             *)
(*                                                                         *)
(* Strings that the code only compares (titles, names, ids) are TLA+       *)
(* strings.  Issue descriptions are sequences of tokens, so that the       *)
(* regular expressions of stripManagedMetadata are modelled by what they   *)
(* match:                                                                  *)
(*   "M"  the text  managedBy: linear-engine                               *)
(*   "Mv" another spelling the regexes accept (MANAGEDBY:linear-engine)    *)
(*   "F"  the text  ---                                                    *)
(*   "NL" a newline, "SP" a space, "a" and "b" one letter of body text.    *)
(***************************************************************************)
EXTENDS Integers, Sequences, FiniteSets, TLC

\* ------------------------------------------------------------------ bounds
MaxEpics == 2
MaxStories == 2
MaxRuns == 2
MaxAborts == 1
MaxLen == 4

\* ------------------------------------------------- description text (tokens)
MANAGED_METADATA_LINE == <<"M">>

Tokens == {"M", "Mv", "F", "NL", "SP", "a", "b"}

\* \s of the regular expressions
IsWS(t) == t \in {"NL", "SP"}

\* managedBy:\s*linear-engine under the i flag
IsMeta(t) == t \in {"M", "Mv"}

\* last index of the whitespace run that starts at i (i-1 when there is none)
RECURSIVE WsEnd(_, _)
WsEnd(d, i) ==
  IF i <= Len(d) /\ IsWS(d[i]) THEN WsEnd(d, i + 1) ELSE i - 1

\* first index of the whitespace run that ends right before p
RECURSIVE WsStart(_, _)
WsStart(d, p) ==
  IF p > 1 /\ IsWS(d[p - 1]) THEN WsStart(d, p - 1) ELSE p

\* ^ under the m flag
LineStart(d, p) == p = 1 \/ d[p - 1] = "NL"

RemoveRange(d, s, e) == SubSeq(d, 1, s - 1) \o SubSeq(d, e + 1, Len(d))

\* ---\s*\nmanagedBy:\s*linear-engine\s*\n---  starting at p: the index of the
\* closing fence, 0 when it does not match there
FencedBlock(d, p) ==
  IF p > Len(d) \/ d[p] # "F" THEN 0
  ELSE LET q1 == WsEnd(d, p + 1) IN
    IF q1 < p + 1 \/ d[q1] # "NL" \/ q1 + 1 > Len(d) THEN 0
    ELSE IF ~IsMeta(d[q1 + 1]) THEN 0
    ELSE LET q2 == WsEnd(d, q1 + 2) IN
      IF q2 < q1 + 2 \/ d[q2] # "NL" \/ q2 + 1 > Len(d) THEN 0
      ELSE IF d[q2 + 1] # "F" THEN 0
      ELSE q2 + 1

\* \s*$ after the closing fence c under the m flag: the last index matched,
\* -1 when the line does not end there
FenceTail(d, c) ==
  LET r == WsEnd(d, c + 1)
      nls == {k \in (c + 1)..r : d[k] = "NL"}
  IN IF r = Len(d) THEN r
     ELSE IF nls = {} THEN -1
     ELSE (CHOOSE k \in nls : \A j \in nls : j <= k) - 1

\* .replace(/\s*^---\s*\nmanagedBy:\s*linear-engine\s*\n---\s*\n?/imu, "")
StripLeadingFence(d) ==
  LET ps == {p \in 1..Len(d) : LineStart(d, p) /\ FencedBlock(d, p) > 0} IN
  IF ps = {} THEN d
  ELSE LET p == CHOOSE q \in ps : \A j \in ps : q <= j
       IN RemoveRange(d, WsStart(d, p), WsEnd(d, FencedBlock(d, p) + 1))

\* .replace(/\s*\n?---\s*\nmanagedBy:\s*linear-engine\s*\n---\s*$/imu, "")
StripTrailingFence(d) ==
  LET ps == {p \in 1..Len(d) :
               FencedBlock(d, p) > 0 /\ FenceTail(d, FencedBlock(d, p)) >= 0} IN
  IF ps = {} THEN d
  ELSE LET p == CHOOSE q \in ps : \A j \in ps : q <= j
       IN RemoveRange(d, WsStart(d, p), FenceTail(d, FencedBlock(d, p)))

\* .replace(/^managedBy:\s*linear-engine\s*\n*/imu, "")
StripBareLine(d) ==
  LET ps == {p \in 1..Len(d) : LineStart(d, p) /\ IsMeta(d[p])} IN
  IF ps = {} THEN d
  ELSE LET p == CHOOSE q \in ps : \A j \in ps : q <= j
       IN RemoveRange(d, p, WsEnd(d, p + 1))

\* String.prototype.trim
TrimText(d) ==
  LET keep == {i \in 1..Len(d) : ~IsWS(d[i])} IN
  IF keep = {} THEN <<>>
  ELSE SubSeq(d, CHOOSE i \in keep : \A j \in keep : i <= j,
                 CHOOSE i \in keep : \A j \in keep : j <= i)

stripManagedMetadata(description) ==
  IF description = <<>> THEN <<>>
  ELSE TrimText(StripBareLine(StripTrailingFence(StripLeadingFence(description))))

\* the sentinel line and a blank line put before the text as it stands
prependManagedMetadata(description) ==
  MANAGED_METADATA_LINE \o <<"NL", "NL">> \o description

ensureManagedMetadata(description) ==
  LET stripped == stripManagedMetadata(description) IN
  IF stripped = <<>> THEN MANAGED_METADATA_LINE
  ELSE MANAGED_METADATA_LINE \o <<"NL", "NL">> \o stripped

normalizeDescription(description) ==
  TrimText(ensureManagedMetadata(stripManagedMetadata(description)))


\* ------------------------------------------------------- names and identifiers
\* an optional field that the spec document does not give (undefined)
NoField == "undefined"

\* a null reference to a user
NoUser == "null"

\* String.prototype.trim on the names the model uses
Trim(s) ==
  CASE s = "  " -> ""
    [] s = " In Progress " -> "In Progress"
    [] s = " COG-1 " -> "COG-1"
    [] s = " Atul " -> "Atul"
    [] s = " Looks good " -> "Looks good"
    [] s = " Phase 2 " -> "Phase 2"
    [] s = " engine " -> "engine"
    [] OTHER -> s

\* String.prototype.toLowerCase on the names the model uses
ToLower(s) ==
  CASE s = "Engine" -> "engine"
    [] s = "Atul" -> "atul"
    [] s = "Alpha" -> "alpha"
    [] s = "Zeta" -> "zeta"
    [] s = "Me" -> "me"
    [] s = "Nine" -> "nine"
    [] s = "Other" -> "other"
    [] s = "Todo" -> "todo"
    [] s = "In Progress" -> "in progress"
    [] s = "Done" -> "done"
    [] s = "DONE" -> "done"
    [] s = "Doing" -> "doing"
    [] s = "Inactive" -> "inactive"
    [] s = "Canceled" -> "canceled"
    [] s = "Backlog" -> "backlog"
    [] s = "Ghost" -> "ghost"
    [] s = "Started" -> "started"
    [] s = "Bo" -> "bo"
    [] OTHER -> s

\* JavaScript truthiness of an optional string
Truthy(s) == s # NoField /\ s # ""

\* the users of the workspace, as client.getUsers() lists them
Users ==
  << [id |-> "u1", name |-> "Me", displayName |-> "Me", email |-> "me@x"],
     [id |-> "u2", name |-> "Atul", displayName |-> "Atul S", email |-> "atul@x"],
     [id |-> "u9", name |-> "Nine", displayName |-> "Nine", email |-> "nine@x"],
     [id |-> "u3", name |-> "Bo", displayName |-> "  ", email |-> "bo@x"] >>

\* the authenticated user (client.viewer)
Viewer == "u1"

\* the team every project of the model belongs to, and its initial state
TeamId == "t1"
DefaultState == "s1"

First(S) == CHOOSE x \in S : \A y \in S : x <= y

\* LinearApiClient.findUserByIdentifier: the id of the first user whose id
\* equals the needle or whose name, display name or email equals it ignoring
\* case; NoUser when there is none
findUserByIdentifier(identifier) ==
  LET needle == Trim(identifier)
      byId == {i \in 1..Len(Users) : Users[i].id = needle}
      byName == {i \in 1..Len(Users) :
                   \/ ToLower(Users[i].name) = ToLower(needle)
                   \/ ToLower(Users[i].displayName) = ToLower(needle)
                   \/ ToLower(Users[i].email) = ToLower(needle)}
  IN IF byId # {} THEN Users[First(byId)].id
     ELSE IF byName # {} THEN Users[First(byName)].id
     ELSE NoUser

\* the identifier (key) the tracker gives the issue with id i
IssueKey(i) == "COG-" \o ToString(i)

\* LinearApiClient.getIssueByKey over a list of remote issues: the id of the
\* first issue with that identifier, 0 when there is none
getIssueByKey(remote, issueKey) ==
  LET hits == {i \in 1..Len(remote) : remote[i].identifier = Trim(issueKey)}
  IN IF hits = {} THEN 0 ELSE First(hits)

\* a lookup that takes the name as it is written
getProjectByNameExact(remote, name) ==
  LET hits == {i \in 1..Len(remote) : remote[i].name = name}
  IN IF hits = {} THEN 0 ELSE First(hits)

\* LinearApiClient.getProjectByName over the remote projects: the id of the
\* first project whose name equals the trimmed name ignoring case, 0 if none
getProjectByName(remote, name) ==
  LET hits == {i \in 1..Len(remote) : ToLower(remote[i].name) = ToLower(Trim(name))}
  IN IF hits = {} THEN 0 ELSE First(hits)

\* getIssueAssigneeId: assigneeId when it is set, else assignee.id, else null
getIssueAssigneeId(issue) ==
  IF issue.assigneeId # NoUser /\ issue.assigneeId # "" THEN issue.assigneeId
  ELSE issue.assignee

\* a search by title alone
findIssueByTitleAnyParent(issues, title, parentId) ==
  LET hits == {i \in 1..Len(issues) : issues[i].title = title}
  IN IF hits = {} THEN 0 ELSE CHOOSE i \in hits : \A j \in hits : i <= j

\* a search that sees top-level issues only
findIssueByTitleAmongTopLevel(issues, title, parentId) ==
  LET hits == {i \in 1..Len(issues) :
                 issues[i].title = title /\ issues[i].parentId = 0 /\ parentId = 0}
  IN IF hits = {} THEN 0 ELSE CHOOSE i \in hits : \A j \in hits : i <= j

\* normalizeParentId / findIssueByTitle: the position in the in-memory list of
\* the first issue with that title and parent, 0 when there is none
findIssueByTitle(issues, title, parentId) ==
  LET hits == {i \in 1..Len(issues) :
                 issues[i].title = title /\ issues[i].parentId = parentId}
  IN IF hits = {} THEN 0 ELSE First(hits)

\* ------------------------------------------------- milestone name resolution
OptTrim(s) == IF s = NoField THEN NoField ELSE Trim(s)

resolveEpicMilestoneName(sp, epic) ==
  LET explicitName == OptTrim(epic.milestone)
      hits == {i \in 1..Len(sp.milestones) :
                 Trim(sp.milestones[i].name) = Trim(epic.title)}
  IN IF Truthy(explicitName) THEN explicitName
     ELSE IF hits # {} /\ Truthy(Trim(sp.milestones[First(hits)].name))
          THEN Trim(sp.milestones[First(hits)].name)
     ELSE NoField

resolveStoryMilestoneName(epicMilestone, storyMilestone) ==
  LET explicitStory == OptTrim(storyMilestone)
      inheritedEpic == OptTrim(epicMilestone)
  IN IF Truthy(explicitStory) THEN explicitStory
     ELSE IF Truthy(inheritedEpic) THEN inheritedEpic
     ELSE NoField

\* a collection that keeps a name as often as it is added
EveryInsertion(names) == names

\* the names a Set<string> holds, in insertion order
RECURSIVE InsertionOrder(_)
InsertionOrder(names) ==
  IF names = <<>> THEN <<>>
  ELSE LET front == InsertionOrder(SubSeq(names, 1, Len(names) - 1))
           last == names[Len(names)]
       IN IF \E i \in 1..Len(front) : front[i] = last THEN front
          ELSE Append(front, last)

SelectTruthy(names) == SelectSeq(names, LAMBDA n : Truthy(n))

\* the names one epic and its stories contribute, in the order of the loops
RECURSIVE EpicMilestoneNames(_, _)
EpicMilestoneNames(sp, k) ==
  IF k > Len(sp.epics) THEN <<>>
  ELSE LET epic == sp.epics[k] IN
       << resolveEpicMilestoneName(sp, epic) >>
       \o [j \in 1..Len(epic.stories) |->
             resolveStoryMilestoneName(epic.milestone, epic.stories[j].milestone)]
       \o EpicMilestoneNames(sp, k + 1)

\* a collection that always asks for a milestone of its own
collectDesiredMilestoneNamesWithDefault(sp) ==
  InsertionOrder(SelectTruthy(
    [i \in 1..Len(sp.milestones) |-> Trim(sp.milestones[i].name)]
    \o EpicMilestoneNames(sp, 1) \o <<"Backlog">>))

\* the Set<string> of collectDesiredMilestoneNames, in insertion order
collectDesiredMilestoneNames(sp) ==
  InsertionOrder(SelectTruthy(
    [i \in 1..Len(sp.milestones) |-> Trim(sp.milestones[i].name)]
    \o EpicMilestoneNames(sp, 1)))


\* ------------------------------------------------------------ the remote tracker
\* Remote entities are kept in creation order; the id of an entity is its
\* position.  A project is [name, description, teamId, milestoneQuery], where
\* milestoneQuery says whether the project object has projectMilestones(); a
\* milestone is [projectId, name]; an issue is
\* [id, identifier, title, description, teamId, stateId, projectId,
\*  projectMilestoneId (0 = null), parentId (0 = null), assigneeId, assignee].

VARIABLES
  spec,              \* the ProjectSpec every run is given
  remoteProjects,    \* the projects of the workspace
  remoteMilestones,  \* the project milestones of the workspace
  remoteIssues,      \* the issues of the workspace
  loc,               \* per invocation of syncProject: its locals, report and calls
  aborts,            \* remote calls that have failed so far
  remoteStates,      \* the workflow states of the team, as the tracker lists them
  remoteComments,    \* the comments of the workspace
  issueOp            \* the issue operation invoked: its input, locals and outcome

vars == <<spec, remoteProjects, remoteMilestones, remoteIssues, loc, aborts,
          remoteStates, remoteComments, issueOp>>

\* what the sync engine never reads or writes
issueOpVars == <<remoteStates, remoteComments, issueOp>>

\* the invocations of syncProject the model runs
Procs == {"sync1"}

\* the fields of a create or update input, each with a filler for "not given"
NoInput ==
  [name |-> "", title |-> "", text |-> "", description |-> <<>>,
   assigneeId |-> NoUser, parentId |-> 0, projectId |-> 0,
   projectMilestoneId |-> 0, stateId |-> "", teamId |-> ""]

\* one call on the LinearApiClient: the operation, the entity it addresses (the
\* new id for a create), the input fields it carries and their values; e and s
\* name the spec epic and story the engine was reconciling (0 = none)
Call(op, id, fields, in, e, s) ==
  [op |-> op, id |-> id, fields |-> fields, in |-> in, e |-> e, s |-> s]

MutatingOps ==
  {"createProject", "updateProject", "createMilestone", "createIssue", "updateIssue"}

\* the tracker's createIssue as LinearApiClient.createIssue reaches it: a missing
\* assigneeId is filled with the current user; the tracker numbers the issue,
\* puts it in the team's initial state and returns it
NewIssue(remote, fields, in) ==
  LET assigneeId == IF "assigneeId" \in fields THEN in.assigneeId ELSE Viewer IN
  [id |-> Len(remote) + 1,
   identifier |-> IssueKey(Len(remote) + 1),
   title |-> in.title,
   description |-> in.description,
   teamId |-> in.teamId,
   stateId |-> DefaultState,
   projectId |-> in.projectId,
   projectMilestoneId |-> 0,
   parentId |-> IF "parentId" \in fields THEN in.parentId ELSE 0,
   assigneeId |-> assigneeId,
   assignee |-> assigneeId]

\* the tracker's updateIssue: the fields the input carries are overwritten, every
\* other field of the record is kept
UpdatedIssue(issue, fields, in) ==
  [issue EXCEPT
     !.description = IF "description" \in fields THEN in.description ELSE @,
     !.assigneeId = IF "assigneeId" \in fields THEN in.assigneeId ELSE @,
     !.assignee = IF "assigneeId" \in fields THEN in.assigneeId ELSE @,
     !.projectMilestoneId =
        IF "projectMilestoneId" \in fields THEN in.projectMilestoneId ELSE @,
     !.stateId = IF "stateId" \in fields THEN in.stateId ELSE @]

\* client.getIssuesByProject: the issues of one project, in the tracker's order
getIssuesByProject(remote, projectId) ==
  SelectSeq(remote, LAMBDA issue : issue.projectId = projectId)

\* project.projectMilestones(): ids of the milestones of one project, in order
ProjectMilestoneIds(ms, projectId) ==
  {i \in 1..Len(ms) : ms[i].projectId = projectId}

MilestoneNames(ms, projectId) ==
  {ms[i].name : i \in ProjectMilestoneIds(ms, projectId)}

\* one record of the report (pushAction)
Action(status, entity, name, reason) ==
  [status |-> status, entity |-> entity, name |-> name, reason |-> reason]


\* the inputs the engine hands to createIssue and updateIssue
Input(fields, in) == [fields |-> fields, in |-> in]

\* client.createIssue({teamId, projectId, [parentId,] title, description, assigneeId})
issueCreate(teamId, projectId, parentId, title, description, assigneeId) ==
  Input({"teamId", "projectId", "title", "description", "assigneeId"}
          \cup (IF parentId = 0 THEN {} ELSE {"parentId"}),
        [NoInput EXCEPT !.teamId = teamId, !.projectId = projectId,
                        !.parentId = parentId, !.title = title,
                        !.description = description, !.assigneeId = assigneeId])

\* client.updateIssue(issue.id, { assigneeId: desiredAssigneeId })
assigneeUpdate(desiredAssigneeId) ==
  Input({"assigneeId"}, [NoInput EXCEPT !.assigneeId = desiredAssigneeId])

\* a description update that also names the team's initial state
descriptionUpdateMovingState(desiredDescription) ==
  Input({"description", "stateId"},
        [NoInput EXCEPT !.description = desiredDescription, !.stateId = DefaultState])

\* client.updateIssue(issue.id, { description: desiredDescription })
descriptionUpdate(desiredDescription) ==
  Input({"description"}, [NoInput EXCEPT !.description = desiredDescription])

\* client.updateIssue(issueId, { projectMilestoneId: foundMilestone.id })
milestoneUpdate(milestoneId) ==
  Input({"projectMilestoneId"}, [NoInput EXCEPT !.projectMilestoneId = milestoneId])

\* ------------------------------------------------- one invocation of syncProject
\* The locals of syncProject and of the functions it awaits.  pc names the
\* await the invocation has reached; issues is the in-memory list that
\* ensureEpicsAndStories fetches once and then extends; epicIssue and issue are
\* positions in it.  calls is the log of the calls made on the client, snap the
\* remote issues when the run began (snapProjects and snapMilestones the
\* projects and milestones), snap0 the issues when the first run began, prev the
\* outcome of the run before.
InitLoc ==
  [pc |-> "idle", run |-> 0, prev |-> "none",
   project |-> 0, desired |-> <<>>, existingNames |-> {}, mi |-> 0,
   issues |-> <<>>, currentUser |-> NoUser, cachedUser |-> NoUser, teamId |-> "",
   e |-> 0, s |-> 0, desiredAssigneeId |-> NoUser, milestoneName |-> NoField,
   epicIssue |-> 0, issue |-> 0,
   report |-> <<>>, calls |-> <<>>, snap |-> <<>>, snap0 |-> <<>>,
   snapProjects |-> <<>>, snapMilestones |-> <<>>]

\* what a step leaves: the locals and the three remote collections
Result(l, P, M, I) == [l |-> l, projects |-> P, milestones |-> M, issues |-> I]

\* a report that takes its newest record first
pushActionFirst(l, status, entity, name, reason) ==
  [l EXCEPT !.report = <<Action(status, entity, name, reason)>> \o @]

pushAction(l, status, entity, name, reason) ==
  [l EXCEPT !.report = Append(@, Action(status, entity, name, reason))]

logCall(l, op, id, fields, in) ==
  [l EXCEPT !.calls = Append(@, Call(op, id, fields, in, l.e, l.s))]

\* a throw: the invocation ends without a report
Throw(l) == [l EXCEPT !.pc = "aborted"]

EntitySpec(sp, e, s) == IF s = 0 THEN sp.epics[e] ELSE sp.epics[e].stories[s]

EntityKind(s) == IF s = 0 THEN "epic" ELSE "story"

\* the top of the epic loop (s = 0) or of the story loop: the milestone name of
\* the entity is resolved, then its assignee
EnterEntity(l, sp, e, s) ==
  [l EXCEPT
     !.e = e, !.s = s, !.issue = 0,
     !.epicIssue = IF s = 0 THEN 0 ELSE @,
     !.desiredAssigneeId = NoUser,
     !.milestoneName =
        IF s = 0 THEN resolveEpicMilestoneName(sp, sp.epics[e])
        ELSE resolveStoryMilestoneName(sp.epics[e].milestone,
                                       sp.epics[e].stories[s].milestone),
     !.pc = "resolveAssignee"]

\* the end of one entity: the next story of the epic, the next epic, or the end
AfterEntity(l, sp) ==
  IF l.s < Len(sp.epics[l.e].stories) THEN EnterEntity(l, sp, l.e, l.s + 1)
  ELSE IF l.e < Len(sp.epics) THEN EnterEntity(l, sp, l.e + 1, 0)
  ELSE [l EXCEPT !.pc = "done"]

\* after create or description sync: if (epicMilestoneName) / if (storyMilestoneName)
AfterDescription(l, sp) ==
  IF Truthy(l.milestoneName) THEN [l EXCEPT !.pc = "attach"]
  ELSE AfterEntity(l, sp)

\* ensureEpicsAndStories up to its first await
EnterEpics(l, sp) ==
  IF Len(sp.epics) = 0 THEN [l EXCEPT !.pc = "done"]
  ELSE [l EXCEPT !.pc = "fetchIssues"]

\* ensureMilestones up to its first await
EnterMilestones(l, sp) ==
  LET desiredMilestoneNames == collectDesiredMilestoneNames(sp) IN
  IF Len(desiredMilestoneNames) = 0 THEN EnterEpics(l, sp)
  ELSE [l EXCEPT !.desired = desiredMilestoneNames, !.pc = "fetchMilestones"]

\* ensureProject: client.getProjectByName
ensureProjectLookup(l, P, M, I, sp) ==
  LET projectName == Trim(sp.project.name) IN
  IF projectName = "" THEN Result(Throw(l), P, M, I)
  ELSE Result(
         [logCall(l, "getProjectByName", 0, {"name"},
                  [NoInput EXCEPT !.name = projectName])
            EXCEPT !.project = getProjectByName(P, projectName),
                   !.pc = "ensureProject"],
         P, M, I)

\* a comparison of the two descriptions without their managed metadata
projectDescriptionDiffersNormalized(currentDescription, desiredDescription) ==
  normalizeDescription(currentDescription) # normalizeDescription(desiredDescription)

\* currentDescription !== desiredDescription
projectDescriptionDiffers(currentDescription, desiredDescription) ==
  currentDescription # desiredDescription

\* ensureProject: createProject, updateProject or neither, and its record
ensureProject(l, P, M, I, sp) ==
  LET projectName == Trim(sp.project.name)
      desiredDescription == sp.project.description
      in == [NoInput EXCEPT !.name = projectName, !.description = desiredDescription]
  IN IF l.project = 0 THEN
       LET l1 == logCall(l, "createProject", Len(P) + 1, {"name", "description"}, in)
           l2 == pushAction(l1, "Created", "project", projectName, NoField)
       IN Result(EnterMilestones([l2 EXCEPT !.project = Len(P) + 1], sp),
                 Append(P, [name |-> projectName, description |-> desiredDescription,
                            teamId |-> TeamId, milestoneQuery |-> TRUE]),
                 M, I)
     ELSE IF projectDescriptionDiffers(P[l.project].description, desiredDescription) THEN
       LET l1 == logCall(l, "updateProject", l.project, {"description"}, in)
           l2 == pushAction(l1, "Updated", "project", projectName, NoField)
       IN Result(EnterMilestones(l2, sp),
                 [P EXCEPT ![l.project].description = desiredDescription], M, I)
     ELSE
       Result(EnterMilestones(
                pushAction(l, "Skipped", "project", projectName, "description unchanged"),
                sp),
              P, M, I)

\* getProjectMilestones(project, required), the first fetch of ensureMilestones
fetchMilestones(l, P, M, I, sp) ==
  IF ~P[l.project].milestoneQuery THEN Result(Throw(l), P, M, I)
  ELSE Result(
         [logCall(l, "projectMilestones", l.project, {}, NoInput)
            EXCEPT !.existingNames = MilestoneNames(M, l.project),
                   !.mi = 1, !.pc = "ensureMilestones"],
         P, M, I)

\* one turn of the loop of ensureMilestones; created says whether the tracker
\* made the milestone that createMilestone asked for (its success flag is not
\* read by the engine)
ensureMilestones(l, P, M, I, sp, created) ==
  LET milestoneName == l.desired[l.mi]
      next == IF l.mi < Len(l.desired) THEN "ensureMilestones" ELSE "verifyMilestones"
  IN IF milestoneName \notin l.existingNames THEN
       LET l1 == logCall(l, "createMilestone", l.project, {"projectId", "name"},
                    [NoInput EXCEPT !.projectId = l.project, !.name = milestoneName])
           l2 == pushAction(l1, "Created", "milestone", milestoneName, NoField)
       IN Result([l2 EXCEPT !.mi = @ + 1, !.pc = next], P,
                 IF created
                 THEN Append(M, [projectId |-> l.project, name |-> milestoneName])
                 ELSE M,
                 I)
     ELSE
       Result([pushAction(l, "Skipped", "milestone", milestoneName, "already exists")
                 EXCEPT !.mi = @ + 1, !.pc = next],
              P, M, I)

\* a second fetch that checks nothing
verifyMilestonesUnchecked(l, P, M, I, sp) ==
  Result(EnterEpics(logCall(l, "projectMilestones", l.project, {}, NoInput), sp), P, M, I)

\* the second fetch of ensureMilestones and its check of every desired name
verifyMilestones(l, P, M, I, sp) ==
  LET l1 == logCall(l, "projectMilestones", l.project, {}, NoInput)
      resolvedMilestoneNames == MilestoneNames(M, l.project)
  IN IF \E i \in 1..Len(l.desired) : l.desired[i] \notin resolvedMilestoneNames
     THEN Result(Throw(l1), P, M, I)
     ELSE Result(EnterEpics(l1, sp), P, M, I)


\* the three awaits that open ensureEpicsAndStories: getIssuesByProject,
\* getCurrentUser (fetched once per client, then cached) and resolveTeamId (the
\* project's own team)
fetchIssues(l, P, M, I, sp) ==
  LET l1 == logCall(l, "getIssuesByProject", l.project, {}, NoInput)
      l2 == IF l1.cachedUser = NoUser THEN logCall(l1, "viewer", 0, {}, NoInput) ELSE l1
      l3 == [l2 EXCEPT !.issues = getIssuesByProject(I, l.project),
                       !.cachedUser = Viewer, !.currentUser = Viewer,
                       !.teamId = P[l.project].teamId]
  IN Result(EnterEntity(l3, sp, 1, 0), P, M, I)

\* a resolution that takes a reference that names no user for no reference
resolveDesiredAssigneeIdUsersOnly(I, assigneeReference, defaultAssigneeId) ==
  IF ~Truthy(assigneeReference) \/ Trim(assigneeReference) = ""
  THEN [ok |-> TRUE, id |-> defaultAssigneeId, calls |-> <<>>]
  ELSE LET user == findUserByIdentifier(Trim(assigneeReference)) IN
    [ok |-> TRUE, id |-> IF user # NoUser THEN user ELSE defaultAssigneeId,
     calls |-> <<"findUserByIdentifier">>]

\* resolveDesiredAssigneeId: [ok, id, calls], calls being the lookups it made
resolveDesiredAssigneeId(I, assigneeReference, defaultAssigneeId) ==
  IF ~Truthy(assigneeReference)
  THEN [ok |-> TRUE, id |-> defaultAssigneeId, calls |-> <<>>]
  ELSE LET normalizedReference == Trim(assigneeReference) IN
    IF normalizedReference = ""
    THEN [ok |-> TRUE, id |-> defaultAssigneeId, calls |-> <<>>]
    ELSE LET user == findUserByIdentifier(normalizedReference) IN
      IF user # NoUser
      THEN [ok |-> TRUE, id |-> user, calls |-> <<"findUserByIdentifier">>]
      ELSE LET issue == getIssueByKey(I, normalizedReference)
               both == <<"findUserByIdentifier", "getIssueByKey">>
           IN IF issue = 0 THEN [ok |-> FALSE, id |-> NoUser, calls |-> both]
              ELSE IF getIssueAssigneeId(I[issue]) = NoUser
                   THEN [ok |-> FALSE, id |-> NoUser, calls |-> both]
              ELSE [ok |-> TRUE, id |-> getIssueAssigneeId(I[issue]), calls |-> both]

RECURSIVE logLookups(_, _, _)
logLookups(l, ops, name) ==
  IF ops = <<>> THEN l
  ELSE logLookups(logCall(l, Head(ops), 0, {"name"}, [NoInput EXCEPT !.name = name]),
                  Tail(ops), name)

\* the await of resolveDesiredAssigneeId for the entity at hand
resolveAssignee(l, P, M, I, sp) ==
  LET entity == EntitySpec(sp, l.e, l.s)
      r == resolveDesiredAssigneeId(I, entity.assignee, l.currentUser)
      l1 == logLookups(l, r.calls, OptTrim(entity.assignee))
  IN IF ~r.ok THEN Result(Throw(l1), P, M, I)
     ELSE Result([l1 EXCEPT !.desiredAssigneeId = r.id, !.pc = "reconcile"], P, M, I)

\* an assignee sync that makes the desired assignee the assignee whenever the
\* two differ
syncIssueAssigneeAlways(l, I, pos, desiredAssigneeId, explicitAssigneeInSpec, entity, name) ==
  LET issue == l.issues[pos]
      u == assigneeUpdate(desiredAssigneeId)
  IN IF getIssueAssigneeId(issue) # desiredAssigneeId
     THEN [l |-> pushAction(
                   [logCall(l, "updateIssue", issue.id, u.fields, u.in)
                      EXCEPT !.issues[pos].assigneeId = desiredAssigneeId],
                   "Updated", entity, name, "assignee set from spec"),
           issues |-> [I EXCEPT ![issue.id] = UpdatedIssue(@, u.fields, u.in)]]
     ELSE [l |-> l, issues |-> I]

\* an assignee sync that never replaces an assignee
syncIssueAssigneeIfUnassigned(l, I, pos, desiredAssigneeId, explicitAssigneeInSpec, entity, name) ==
  LET issue == l.issues[pos]
      u == assigneeUpdate(desiredAssigneeId)
  IN IF getIssueAssigneeId(issue) = NoUser
     THEN [l |-> pushAction(
                   [logCall(l, "updateIssue", issue.id, u.fields, u.in)
                      EXCEPT !.issues[pos].assigneeId = desiredAssigneeId],
                   "Updated", entity, name,
                   IF explicitAssigneeInSpec THEN "assignee set from spec"
                   ELSE "Assigned issue to current user"),
           issues |-> [I EXCEPT ![issue.id] = UpdatedIssue(@, u.fields, u.in)]]
     ELSE [l |-> l, issues |-> I]

\* an assignee sync that acts on an assignee of the spec only
syncIssueAssigneeFromSpecOnly(l, I, pos, desiredAssigneeId, explicitAssigneeInSpec, entity, name) ==
  LET issue == l.issues[pos]
      u == assigneeUpdate(desiredAssigneeId)
  IN IF explicitAssigneeInSpec /\ getIssueAssigneeId(issue) # desiredAssigneeId
     THEN [l |-> pushAction(
                   [logCall(l, "updateIssue", issue.id, u.fields, u.in)
                      EXCEPT !.issues[pos].assigneeId = desiredAssigneeId],
                   "Updated", entity, name, "assignee set from spec"),
           issues |-> [I EXCEPT ![issue.id] = UpdatedIssue(@, u.fields, u.in)]]
     ELSE [l |-> l, issues |-> I]

\* syncIssueAssignee on the in-memory issue at position pos: the field update it
\* sends, if any, and its record
syncIssueAssignee(l, I, pos, desiredAssigneeId, explicitAssigneeInSpec, entity, name) ==
  LET issue == l.issues[pos]
      currentAssigneeId == getIssueAssigneeId(issue)
      u == assigneeUpdate(desiredAssigneeId)
      write(reason) ==
        [l |-> pushAction(
                 [logCall(l, "updateIssue", issue.id, u.fields, u.in)
                    EXCEPT !.issues[pos].assigneeId = desiredAssigneeId],
                 "Updated", entity, name, reason),
         issues |-> [I EXCEPT ![issue.id] = UpdatedIssue(@, u.fields, u.in)]]
  IN IF explicitAssigneeInSpec THEN
       IF currentAssigneeId # desiredAssigneeId THEN write("assignee set from spec")
       ELSE [l |-> l, issues |-> I]
     ELSE IF currentAssigneeId = NoUser THEN write("Assigned issue to current user")
     ELSE [l |-> l, issues |-> I]

\* findIssueByTitle, then createIssue for a missing entity or syncIssueAssignee
\* for an existing one
reconcile(l, P, M, I, sp) ==
  LET entity == EntitySpec(sp, l.e, l.s)
      parentId == IF l.s = 0 THEN 0 ELSE l.issues[l.epicIssue].id
      pos == findIssueByTitle(l.issues, entity.title, parentId)
  IN IF pos = 0 THEN
       LET c == issueCreate(l.teamId, l.project, parentId, entity.title,
                            ensureManagedMetadata(entity.description),
                            l.desiredAssigneeId)
           created == NewIssue(I, c.fields, c.in)
           l1 == logCall(l, "createIssue", created.id, c.fields, c.in)
           l2 == [l1 EXCEPT !.issues = Append(@, created),
                            !.issue = Len(l.issues) + 1,
                            !.epicIssue = IF l.s = 0 THEN Len(l.issues) + 1 ELSE @]
           l3 == pushAction(l2, "Created", EntityKind(l.s), entity.title, NoField)
       IN Result(AfterDescription(l3, sp), P, M, Append(I, created))
     ELSE
       LET l1 == [l EXCEPT !.issue = pos,
                           !.epicIssue = IF l.s = 0 THEN pos ELSE @]
           r == syncIssueAssignee(l1, I, pos, l.desiredAssigneeId,
                                  Truthy(entity.assignee), EntityKind(l.s), entity.title)
       IN Result([r.l EXCEPT !.pc = "describe"], P, M, r.issues)

\* normalizeDescription(issue.description) !== normalizeDescription(desired)
descriptionDiffers(stored, desiredDescription) ==
  normalizeDescription(stored) # normalizeDescription(desiredDescription)

\* the description comparison of an existing entity and its update or Skipped
describe(l, P, M, I, sp) ==
  LET entity == EntitySpec(sp, l.e, l.s)
      issue == l.issues[l.issue]
      desiredDescription == ensureManagedMetadata(entity.description)
      u == descriptionUpdate(desiredDescription)
  IN IF descriptionDiffers(issue.description, desiredDescription)
     THEN LET l1 == logCall(l, "updateIssue", issue.id, u.fields, u.in)
              l2 == [l1 EXCEPT !.issues[l.issue].description = desiredDescription]
              l3 == pushAction(l2, "Updated", EntityKind(l.s), entity.title,
                               "description synchronized")
          IN Result(AfterDescription(l3, sp), P, M,
                    [I EXCEPT ![issue.id] = UpdatedIssue(@, u.fields, u.in)])
     ELSE Result(AfterDescription(
                   pushAction(l, "Skipped", EntityKind(l.s), entity.title,
                              "description unchanged"), sp),
                 P, M, I)

\* an attachment that fails the run when the milestone is not there
attachIssueToMilestoneOrThrow(l, P, M, I, sp) ==
  LET entity == EntitySpec(sp, l.e, l.s)
      issue == l.issues[l.issue]
      normalizedName == Trim(l.milestoneName)
      l2 == logCall(logCall(l, "getProjects", 0, {}, NoInput),
                    "projectMilestones", l.project, {}, NoInput)
      found == {i \in ProjectMilestoneIds(M, l.project) : M[i].name = normalizedName}
  IN IF found = {} THEN Result(Throw(l2), P, M, I)
     ELSE LET u == milestoneUpdate(First(found))
              l3 == logCall(l2, "updateIssue", issue.id, u.fields, u.in)
              l4 == pushAction(l3, "Updated", EntityKind(l.s), entity.title,
                               "milestone assigned")
              l5 == pushAction(l4, "Updated", "milestone-assignment", entity.title,
                               "milestone assigned: " \o l.milestoneName)
          IN Result(AfterEntity(l5, sp), P, M,
                    [I EXCEPT ![issue.id] = UpdatedIssue(@, u.fields, u.in)])

\* attachIssueToMilestone and the two records that follow when it returns true
attachIssueToMilestone(l, P, M, I, sp) ==
  LET entity == EntitySpec(sp, l.e, l.s)
      issue == l.issues[l.issue]
      normalizedName == Trim(l.milestoneName)
      l1 == logCall(l, "getProjects", 0, {}, NoInput)
      found == {i \in ProjectMilestoneIds(M, l.project) : M[i].name = normalizedName}
  IN IF normalizedName = "" THEN Result(AfterEntity(l, sp), P, M, I)
     ELSE IF l.project \notin 1..Len(P) THEN Result(AfterEntity(l1, sp), P, M, I)
     ELSE IF ~P[l.project].milestoneQuery THEN Result(AfterEntity(l1, sp), P, M, I)
     ELSE LET l2 == logCall(l1, "projectMilestones", l.project, {}, NoInput) IN
       IF found = {} THEN Result(AfterEntity(l2, sp), P, M, I)
       ELSE LET u == milestoneUpdate(First(found))
                l3 == logCall(l2, "updateIssue", issue.id, u.fields, u.in)
                l4 == pushAction(l3, "Updated", EntityKind(l.s), entity.title,
                                 "milestone assigned")
                l5 == pushAction(l4, "Updated", "milestone-assignment", entity.title,
                                 "milestone assigned: " \o l.milestoneName)
            IN Result(AfterEntity(l5, sp), P, M,
                      [I EXCEPT ![issue.id] = UpdatedIssue(@, u.fields, u.in)])


\* ------------------------------------------------------------------ the inputs
SeqsUpTo(S, n) == UNION {[1..k -> S] : k \in 0..n}

\* spec bodies: "Build it", another text, the empty string, a body that already
\* carries the sentinel
BodyA == <<"a">>
BodyB == <<"b">>
SpecBodies == {BodyA, BodyB, <<>>, <<"M", "NL", "NL", "a">>}

\* assignee references: a user name, the key of an issue with an assignee, the
\* key of one without, a reference to nothing, a blank string
AssigneeRefs == {"atul", "COG-1", "COG-2", "ghost", "  "}

MilestoneRefs == {"Phase 1", " Phase 2 "}

Attrs(d, a, m) == [description |-> d, assignee |-> a, milestone |-> m]

EpicAttrs ==
  {Attrs(d, NoField, NoField) : d \in SpecBodies}
  \cup {Attrs(BodyA, a, NoField) : a \in AssigneeRefs}
  \cup {Attrs(BodyA, NoField, m) : m \in MilestoneRefs}

StoryAttrs ==
  {Attrs(d, NoField, NoField) : d \in {BodyA, BodyB}}
  \cup {Attrs(BodyA, a, NoField) : a \in {"COG-1", "ghost"}}
  \cup {Attrs(BodyA, NoField, "Phase 1")}

StorySpecs ==
  {[title |-> "S1", description |-> x.description, assignee |-> x.assignee,
    milestone |-> x.milestone] : x \in StoryAttrs}

EpicSpec(title, x, stories) ==
  [title |-> title, description |-> x.description, assignee |-> x.assignee,
   milestone |-> x.milestone, stories |-> stories]

PlainStory(title, d) ==
  [title |-> title, description |-> d, assignee |-> NoField, milestone |-> NoField]

\* a spec with one epic: every attribute, with no story or with one
OneEpicSpecs ==
  {<<EpicSpec("Epic A", x, stories)>> :
     x \in EpicAttrs, stories \in SeqsUpTo(StorySpecs, 1)}

\* a spec with one epic and several stories, titles and bodies repeating
ManyStorySpecs ==
  {<<EpicSpec("Epic A", Attrs(BodyA, NoField, NoField), stories)>> :
     stories \in {ss \in SeqsUpTo({PlainStory("S1", BodyA), PlainStory("S1", BodyB),
                                   PlainStory("S2", BodyA)}, MaxStories) :
                    Len(ss) >= 2}}

\* the epics of a spec with several: two titles, two bodies, with or without a
\* story
SmallEpicSpecs ==
  {EpicSpec(t, Attrs(d, NoField, NoField), stories) :
     t \in {"Epic A", "Epic B"}, d \in {BodyA, BodyB},
     stories \in SeqsUpTo({PlainStory("S1", BodyA)}, 1)}

ManyEpicSpecs ==
  {es \in SeqsUpTo(SmallEpicSpecs, MaxEpics) : Len(es) >= 2 /\ es[1].title = "Epic A"}

ProjectSpec(milestones, epics) ==
  [project |-> [name |-> "Engine", description |-> <<"a">>],
   milestones |-> [i \in 1..Len(milestones) |-> [name |-> milestones[i]]],
   epics |-> epics]

ProjectSpecs ==
  {ProjectSpec(ms, <<>>) : ms \in {<<>>, <<"Phase 1">>, <<"Phase 1", " Phase 2 ">>}}
  \cup {ProjectSpec(ms, es) : ms \in {<<>>, <<"Epic A">>}, es \in OneEpicSpecs}
  \cup {ProjectSpec(<<>>, es) : es \in ManyStorySpecs \cup ManyEpicSpecs}
  \cup {ProjectSpec(<<"Epic B">>, es) : es \in {x \in ManyEpicSpecs : x[2].title = "Epic B"}}

\* remote issues the tracker may hold before the first run.  Issues 1 and 2
\* belong to another project: COG-1 has an assignee, COG-2 has none.
Issue(id, title, description, projectId, parentId, assigneeId, milestoneId, stateId) ==
  [id |-> id, identifier |-> IssueKey(id), title |-> title,
   description |-> description, teamId |-> TeamId, stateId |-> stateId,
   projectId |-> projectId, projectMilestoneId |-> milestoneId,
   parentId |-> parentId, assigneeId |-> assigneeId, assignee |-> assigneeId]

OtherIssues ==
  << Issue(1, "Ref", <<"b">>, 1, 0, "u9", 0, "s2"),
     Issue(2, "Ref2", <<>>, 1, 0, NoUser, 0, "s1") >>

Project(name, description, milestoneQuery) ==
  [name |-> name, description |-> description, teamId |-> TeamId,
   milestoneQuery |-> milestoneQuery]

Remote(P, M, I) == [projects |-> P, milestones |-> M, issues |-> I]

\* the descriptions an existing issue may carry: canonical, bare, legacy fenced
\* at the start, and text that differs from the spec's
StoredA == <<"M", "NL", "NL", "a">>
LegacyA == <<"F", "NL", "M", "NL", "F", "NL", "a">>

\* the issues of the Engine project; m is the milestone one of them is attached
\* to (0 = none)
EngineIssueLists(m) ==
  { <<>>,
    << Issue(3, "Epic A", StoredA, 2, 0, "u9", 0, "s2") >>,
    << Issue(3, "Epic A", LegacyA, 2, 0, NoUser, 0, "s1"),
       Issue(4, "S1", <<"b">>, 2, 3, "u2", 0, "s3") >>,
    << Issue(3, "S1", StoredA, 2, 0, "u2", 0, "s2"),
       Issue(4, "Epic A", <<"a">>, 2, 0, "u1", m, "s3"),
       Issue(5, "Epic B", StoredA, 2, 0, NoUser, 0, "s1") >> }

Remotes ==
  { Remote(<<Project("Other", <<>>, TRUE)>>, <<>>, OtherIssues),
    Remote(<<Project("Other", <<>>, TRUE), Project("Engine", <<"b">>, TRUE)>>,
           <<>>, OtherIssues),
    Remote(<<Project("Other", <<>>, TRUE), Project("Engine", <<"a">>, FALSE)>>,
           <<>>, OtherIssues),
    Remote(<<Project("Other", <<>>, TRUE), Project("Engine", StoredA, TRUE)>>,
           <<>>, OtherIssues) }
  \cup
  UNION
  { { Remote(<<Project("Other", <<>>, TRUE), Project("Engine", <<"a">>, TRUE)>>,
             M, OtherIssues \o I) : I \in EngineIssueLists(Len(M)) } :
      M \in {<<>>, <<[projectId |-> 2, name |-> "Phase 1"]>>} }

\* spec bodies built from up to MaxLen pieces: a sentinel line in either
\* spelling, a fenced sentinel block, a fence, a newline, a space, a letter
Chunks ==
  { <<"M">>, <<"Mv">>, <<"F", "NL", "M", "NL", "F">>, <<"F">>, <<"NL">>, <<"SP">>,
    <<"a">> }

RECURSIVE Concat(_)
Concat(seqs) == IF seqs = <<>> THEN <<>> ELSE Head(seqs) \o Concat(Tail(seqs))

ChunkBodies == {Concat(cs) : cs \in SeqsUpTo(Chunks, MaxLen)}

\* one epic with a milestone and one story, both with the same body
BodySpec(d) ==
  ProjectSpec(<<>>, <<EpicSpec("Epic A", Attrs(d, NoField, "Phase 1"),
                               <<PlainStory("S1", d)>>)>>)

\* a tracker that holds the project, the milestone and the epic
BodyRemote ==
  Remote(<<Project("Other", <<>>, TRUE), Project("Engine", <<"a">>, TRUE)>>,
         <<[projectId |-> 2, name |-> "Phase 1"]>>,
         OtherIssues \o << Issue(3, "Epic A", StoredA, 2, 0, "u9", 0, "s2") >>)

\* ------------------------------------------------------------ workflow states
\* A workflow state as client.getWorkflowStatesByTeam lists it.  type and
\* position are optional: NoField and NoPosition stand for a missing one.
NoPosition == -1

State(id, name, type, position) ==
  [id |-> id, name |-> name, type |-> type, position |-> position]

\* "no state": the null of findStateByName and getFirstActiveState
NoState == State("null", "", NoField, NoPosition)

\* the workflow types that end an issue
COMPLETED_TYPES == {"completed", "canceled"}

\* state.position ?? 0
PositionOf(state) == IF state.position = NoPosition THEN 0 ELSE state.position

\* (state.type ?? "").toLowerCase()
TypeOf(state) == IF state.type = NoField THEN "" ELSE ToLower(state.type)

\* /in progress|doing|active|started/i.test(name), on the names the model uses
NameLooksActive(name) ==
  ToLower(name) \in {"in progress", "doing", "inactive", "not started"}

\* the first state of the list, in list order, that satisfies the test
FirstWhere(states, Test(_)) ==
  LET hits == {i \in 1..Len(states) : Test(states[i])}
  IN IF hits = {} THEN NoState ELSE states[First(hits)]

\* a search that compares the names as they are written
findStateByNameExact(states, stateName) ==
  LET needle == Trim(stateName)
  IN IF needle = "" THEN NoState
     ELSE FirstWhere(states, LAMBDA state : state.name = needle)

\* findStateByName: the needle is trimmed and lower-cased, the names of the
\* states are lower-cased only
findStateByName(states, stateName) ==
  LET needle == ToLower(Trim(stateName))
  IN IF needle = "" THEN NoState
     ELSE FirstWhere(states, LAMBDA state : ToLower(state.name) = needle)

\* getStateNameById
getStateNameById(states, stateId) ==
  IF ~Truthy(stateId) THEN "Unknown"
  ELSE LET state == FirstWhere(states, LAMBDA s : s.id = stateId)
       IN IF state = NoState THEN "Unknown" ELSE state.name

\* the list as it was given
InputOrder(states) == states

RECURSIVE InsertByPosition(_, _)
InsertByPosition(sorted, state) ==
  IF sorted = <<>> THEN <<state>>
  ELSE IF PositionOf(Head(sorted)) <= PositionOf(state)
       THEN <<Head(sorted)>> \o InsertByPosition(Tail(sorted), state)
       ELSE <<state>> \o sorted

\* [...states].sort((a, b) => (a.position ?? 0) - (b.position ?? 0)): the sort
\* is stable, states of equal position keep the order they were given in
RECURSIVE SortByPosition(_)
SortByPosition(states) ==
  IF states = <<>> THEN <<>>
  ELSE InsertByPosition(SortByPosition(SubSeq(states, 1, Len(states) - 1)),
                        states[Len(states)])

\* the state the tracker lists first
firstListedState(states) == IF states = <<>> THEN NoState ELSE states[1]

\* getFirstActiveState
getFirstActiveState(states) ==
  IF states = <<>> THEN NoState
  ELSE
    LET sorted == SortByPosition(states)
        started == SelectSeq(sorted, LAMBDA state : TypeOf(state) = "started")
        byName == FirstWhere(sorted, LAMBDA state : NameLooksActive(state.name))
    IN IF started # <<>> THEN started[1]
       ELSE IF byName # NoState THEN byName
       ELSE FirstWhere(sorted, LAMBDA state : TypeOf(state) \notin COMPLETED_TYPES)

\* the workflow of the team while the engine runs
TeamStates ==
  << State("s1", "Todo", "unstarted", 1),
     State("s2", "In Progress", "started", 2),
     State("s3", "Done", "completed", 3) >>

\* the states a workflow is drawn from: two states of type started at the same
\* position whose names differ in case only, two states that only their name
\* marks as active, one of them without type and position, and two that end an
\* issue
StatePool ==
  { State("s1", "Todo", "unstarted", 1),
    State("s2", "In Progress", "started", 2),
    State("s3", "Done", "completed", 3),
    State("s4", "Doing", "unstarted", 1),
    State("s5", "in progress", "Started", 2),
    State("s6", "Inactive", NoField, NoPosition),
    State("s7", "Canceled", "canceled", 0),
    State("s8", "Backlog", "backlog", 4) }

\* the most states a workflow of the model has
MaxStates == 3

RECURSIVE ListsOf(_, _)
\* the lists of at most n distinct members of S
ListsOf(S, n) ==
  IF n = 0 \/ S = {} THEN {<<>>}
  ELSE {<<>>} \cup UNION { { <<x>> \o rest : rest \in ListsOf(S \ {x}, n - 1) } : x \in S }

StateLists == ListsOf(StatePool, MaxStates)

\* the names a state is looked up by
StateNames == {"in progress", " In Progress ", "todo", "DONE", "Ghost", "  ", ""}

\* ------------------------------------------------------------ issue operations
\* The operation of src/linear/issue.ts that is running: kind and its input,
\* pc the await it has reached, issue the record getIssueByKey returned, states
\* the list getWorkflowStatesByTeam returned, target and nextState the state it
\* resolved, user the user it resolved, result what it returned, error the
\* message it threw, calls the log of its calls on the client, n the number of
\* operations invoked so far.
NoIssue == Issue(0, "", <<>>, 0, 0, NoUser, 0, "")

NoResult ==
  [issueKey |-> NoField, previousState |-> NoField, newState |-> NoField,
   assignee |-> NoField]

InitOp ==
  [pc |-> "idle", n |-> 0, kind |-> "none",
   issueKey |-> "", stateName |-> "", userIdentifier |-> "", text |-> "",
   issue |-> NoIssue, states |-> <<>>, target |-> NoState, nextState |-> NoState,
   user |-> NoUser, result |-> NoResult, error |-> "", calls |-> <<>>]

\* ------------------------------------------------------------------ the actions
Init ==
  /\ spec \in ProjectSpecs
  /\ \E r \in Remotes :
       /\ remoteProjects = r.projects
       /\ remoteMilestones = r.milestones
       /\ remoteIssues = r.issues
  /\ loc = [p \in Procs |-> InitLoc]
  /\ aborts = 0
  /\ remoteStates = TeamStates
  /\ remoteComments = <<>>
  /\ issueOp = InitOp

Commit(p, r) ==
  /\ loc' = [loc EXCEPT ![p] = r.l]
  /\ remoteProjects' = r.projects
  /\ remoteMilestones' = r.milestones
  /\ remoteIssues' = r.issues
  /\ UNCHANGED <<spec, aborts, issueOpVars>>

\* syncProject is called: a fresh report and, by default, a fresh client
StartRun(p) ==
  /\ loc[p].pc \in {"idle", "done", "aborted"}
  /\ loc[p].run < MaxRuns
  /\ loc' = [loc EXCEPT ![p] =
       [InitLoc EXCEPT
          !.pc = "getProject",
          !.run = loc[p].run + 1,
          !.prev = IF loc[p].pc = "idle" THEN "none" ELSE loc[p].pc,
          !.snap = remoteIssues,
          !.snapProjects = remoteProjects,
          !.snapMilestones = remoteMilestones,
          !.snap0 = IF loc[p].run = 0 THEN remoteIssues ELSE loc[p].snap0]]
  /\ UNCHANGED <<spec, remoteProjects, remoteMilestones, remoteIssues, aborts,
                 issueOpVars>>

EnsureProjectLookup(p) ==
  /\ loc[p].pc = "getProject"
  /\ Commit(p, ensureProjectLookup(loc[p], remoteProjects, remoteMilestones,
                                   remoteIssues, spec))

EnsureProject(p) ==
  /\ loc[p].pc = "ensureProject"
  /\ Commit(p, ensureProject(loc[p], remoteProjects, remoteMilestones,
                             remoteIssues, spec))

FetchMilestones(p) ==
  /\ loc[p].pc = "fetchMilestones"
  /\ Commit(p, fetchMilestones(loc[p], remoteProjects, remoteMilestones,
                               remoteIssues, spec))

EnsureMilestones(p) ==
  /\ loc[p].pc = "ensureMilestones"
  /\ \E created \in BOOLEAN :
       Commit(p, ensureMilestones(loc[p], remoteProjects, remoteMilestones,
                                  remoteIssues, spec, created))

VerifyMilestones(p) ==
  /\ loc[p].pc = "verifyMilestones"
  /\ Commit(p, verifyMilestones(loc[p], remoteProjects, remoteMilestones,
                                remoteIssues, spec))

FetchIssues(p) ==
  /\ loc[p].pc = "fetchIssues"
  /\ Commit(p, fetchIssues(loc[p], remoteProjects, remoteMilestones,
                           remoteIssues, spec))

ResolveAssignee(p) ==
  /\ loc[p].pc = "resolveAssignee"
  /\ Commit(p, resolveAssignee(loc[p], remoteProjects, remoteMilestones,
                               remoteIssues, spec))

\* a reconciliation that lists the issues of the project again first
ReconcileRefetching(p) ==
  /\ loc[p].pc = "reconcile"
  /\ Commit(p, reconcile([loc[p] EXCEPT
                            !.issues = getIssuesByProject(remoteIssues, loc[p].project)],
                         remoteProjects, remoteMilestones, remoteIssues, spec))

Reconcile(p) ==
  /\ loc[p].pc = "reconcile"
  /\ Commit(p, reconcile(loc[p], remoteProjects, remoteMilestones,
                         remoteIssues, spec))

Describe(p) ==
  /\ loc[p].pc = "describe"
  /\ Commit(p, describe(loc[p], remoteProjects, remoteMilestones,
                        remoteIssues, spec))

AttachIssueToMilestone(p) ==
  /\ loc[p].pc = "attach"
  /\ Commit(p, attachIssueToMilestone(loc[p], remoteProjects, remoteMilestones,
                                      remoteIssues, spec))

\* the step the invocation is about to take
NextStep(l, P, M, I, sp) ==
  CASE l.pc = "getProject" -> ensureProjectLookup(l, P, M, I, sp)
    [] l.pc = "ensureProject" -> ensureProject(l, P, M, I, sp)
    [] l.pc = "fetchMilestones" -> fetchMilestones(l, P, M, I, sp)
    [] l.pc = "ensureMilestones" -> ensureMilestones(l, P, M, I, sp, TRUE)
    [] l.pc = "verifyMilestones" -> verifyMilestones(l, P, M, I, sp)
    [] l.pc = "fetchIssues" -> fetchIssues(l, P, M, I, sp)
    [] l.pc = "resolveAssignee" -> resolveAssignee(l, P, M, I, sp)
    [] l.pc = "reconcile" -> reconcile(l, P, M, I, sp)
    [] l.pc = "describe" -> describe(l, P, M, I, sp)
    [] l.pc = "attach" -> attachIssueToMilestone(l, P, M, I, sp)
    [] OTHER -> Result(l, P, M, I)

\* the step awaits at least one call on the client
AwaitsCall(p) ==
  Len(NextStep(loc[p], remoteProjects, remoteMilestones, remoteIssues, spec).l.calls)
    > Len(loc[p].calls)

\* a failed call that is made again: the invocation stays where it is
FailAndRetry(p) ==
  /\ aborts < MaxAborts
  /\ AwaitsCall(p)
  /\ aborts' = aborts + 1
  /\ UNCHANGED <<spec, remoteProjects, remoteMilestones, remoteIssues, loc, issueOpVars>>

\* LinearApiClient.execute rethrows: a call of the step fails, nothing the step
\* would have written is written, and the invocation ends
Fail(p) ==
  /\ aborts < MaxAborts
  /\ AwaitsCall(p)
  /\ loc' = [loc EXCEPT ![p].pc = "aborted"]
  /\ aborts' = aborts + 1
  /\ UNCHANGED <<spec, remoteProjects, remoteMilestones, remoteIssues, issueOpVars>>

\* one step of the invocation p
SyncStep(p) ==
  \/ StartRun(p)
  \/ EnsureProjectLookup(p)
  \/ EnsureProject(p)
  \/ FetchMilestones(p)
  \/ EnsureMilestones(p)
  \/ VerifyMilestones(p)
  \/ FetchIssues(p)
  \/ ResolveAssignee(p)
  \/ Reconcile(p)
  \/ Describe(p)
  \/ AttachIssueToMilestone(p)
  \/ Fail(p)

Next == \E p \in Procs : SyncStep(p)

\* -------------------------------------------------- two invocations at once
\* Two processes run syncProject on the same spec against the same tracker;
\* their awaits interleave freely.  The project and its milestone exist, the
\* epic does not.
Racers == {"sync1", "sync2"}

RaceInit ==
  /\ spec = BodySpec(<<"a">>)
  /\ remoteProjects = BodyRemote.projects
  /\ remoteMilestones = BodyRemote.milestones
  /\ remoteIssues = OtherIssues
  /\ loc = [p \in Racers |-> InitLoc]
  /\ aborts = 0
  /\ remoteStates = TeamStates
  /\ remoteComments = <<>>
  /\ issueOp = InitOp

RaceNext == \E p \in Racers : SyncStep(p)

RaceSpec == RaceInit /\ [][RaceNext]_vars

RaceTypeOK == DOMAIN loc = Racers

Spec == Init /\ [][Next]_vars

\* the same engine run on every body of ChunkBodies
DescInit ==
  /\ spec \in {BodySpec(d) : d \in ChunkBodies}
  /\ remoteProjects = BodyRemote.projects
  /\ remoteMilestones = BodyRemote.milestones
  /\ remoteIssues = BodyRemote.issues
  /\ loc = [p \in Procs |-> InitLoc]
  /\ aborts = 0
  /\ remoteStates = TeamStates
  /\ remoteComments = <<>>
  /\ issueOp = InitOp

DescSpec == DescInit /\ [][Next]_vars

\* ------------------------------------------ a tracker that others change too
\* Somebody renames a milestone in the tracker while a run is under way: the
\* milestone keeps its id, and the name the run resolved is no longer there.
MaxRenames == 1

RenameMilestone ==
  /\ \E p \in Procs : loc[p].pc \notin {"idle", "done", "aborted"}
  /\ Cardinality({i \in 1..Len(remoteMilestones) :
                    remoteMilestones[i].name = "Archived"}) < MaxRenames
  /\ \E i \in 1..Len(remoteMilestones) :
       /\ remoteMilestones[i].name # "Archived"
       /\ remoteMilestones' = [remoteMilestones EXCEPT ![i].name = "Archived"]
  /\ UNCHANGED <<spec, remoteProjects, remoteIssues, loc, aborts, issueOpVars>>

TrackerNext == Next \/ RenameMilestone

\* one epic with a milestone and one story, on a tracker that holds the
\* project, the milestone and the epic's issue, or the project alone
TrackerInit ==
  /\ spec \in {BodySpec(d) : d \in {<<"a">>, <<>>}}
  /\ \/ /\ remoteProjects = BodyRemote.projects
        /\ remoteMilestones = BodyRemote.milestones
        /\ remoteIssues = BodyRemote.issues
     \/ /\ remoteProjects = BodyRemote.projects
        /\ remoteMilestones = <<>>
        /\ remoteIssues = OtherIssues
  /\ loc = [p \in Procs |-> InitLoc]
  /\ aborts = 0
  /\ remoteStates = TeamStates
  /\ remoteComments = <<>>
  /\ issueOp = InitOp

TrackerSpec == TrackerInit /\ [][TrackerNext]_vars

\* ------------------------------------------- stored descriptions of an issue
\* the descriptions the epic's issue may carry: up to MaxLen pieces, each a
\* sentinel line, a fenced sentinel block, a newline or a letter
StoredChunks == { <<"M">>, <<"F", "NL", "M", "NL", "F">>, <<"NL">>, <<"a">>, <<"b">> }

StoredBodies == {Concat(cs) : cs \in SeqsUpTo(StoredChunks, MaxLen)}

\* a spec of one epic without stories
EpicOnlySpec(d) ==
  ProjectSpec(<<>>, <<EpicSpec("Epic A", Attrs(d, NoField, "Phase 1"), <<>>)>>)

\* the engine run on one epic whose issue carries any description of
\* StoredBodies, for a body of one line, of two lines and of none
StoredInit ==
  /\ spec \in {EpicOnlySpec(d) : d \in {<<"a">>, <<"a", "NL", "b">>, <<>>}}
  /\ remoteProjects = BodyRemote.projects
  /\ remoteMilestones = <<>>
  /\ \E stored \in StoredBodies :
       remoteIssues = OtherIssues \o << Issue(3, "Epic A", stored, 2, 0, "u9", 0, "s2") >>
  /\ loc = [p \in Procs |-> InitLoc]
  /\ aborts = 0
  /\ remoteStates = TeamStates
  /\ remoteComments = <<>>
  /\ issueOp = InitOp

StoredSpec == StoredInit /\ [][Next]_vars

\* ------------------------------------------------------- the issue operations
\* one call of an issue operation on the client
OpCall(name, id, arg) == [op |-> name, id |-> id, arg |-> arg]

logOpCall(o, name, id, arg) == [o EXCEPT !.calls = Append(@, OpCall(name, id, arg))]

\* a throw: the operation ends with the message and without a result
Reject(o, message) == [o EXCEPT !.pc = "failed", !.error = message]

\* a return
Return(o, result) == [o EXCEPT !.pc = "done", !.result = result]

\* resolveUserLabel: the display name, else the name, else the email, each
\* trimmed, else the id
resolveUserLabel(user) ==
  IF Trim(user.displayName) # "" THEN Trim(user.displayName)
  ELSE IF Trim(user.name) # "" THEN Trim(user.name)
  ELSE IF Trim(user.email) # "" THEN Trim(user.email)
  ELSE user.id

UserById(id) == Users[CHOOSE i \in 1..Len(Users) : Users[i].id = id]

\* the bound on the operations invoked in one behaviour
MaxOps == 2

OpKinds == {"move", "start", "assign", "comment"}
OpKeys == {" COG-1 ", "COG-2", "COG-3", "COG-9", "  "}
OpStateNames == {" In Progress ", "todo", "Ghost", "  "}
OpUserIdentifiers == {" Atul ", "u9", "bo", "Ghost", "  "}
OpTexts == {" Looks good ", "Looks good", "  "}

\* the issues the operations run on: COG-1 is in progress, COG-2 is to do,
\* COG-3 belongs to no team
OpIssues ==
  OtherIssues \o
  << [Issue(3, "Loose", <<>>, 1, 0, NoUser, 0, "s1") EXCEPT !.teamId = NoField] >>

\* the workflows the operations run on: the usual one, one whose started state
\* comes first, one that only ends issues, one without states, and one whose
\* only active state is active by name
OpStateLists ==
  { TeamStates,
    << State("s2", "In Progress", "started", 2), State("s1", "Todo", "unstarted", 1) >>,
    << State("s3", "Done", "completed", 3), State("s7", "Canceled", "canceled", 0) >>,
    << >>,
    << State("s4", "Doing", "unstarted", 1), State("s5", "in progress", "backlog", 2) >> }

\* moveIssueByKeyToState, startIssueByKey, assignIssueToUser or addCommentToIssue
\* is called
InvokeOp ==
  /\ issueOp.pc \in {"idle", "done", "failed"}
  /\ issueOp.n < MaxOps
  /\ \E kind \in OpKinds, issueKey \in OpKeys :
       \E stateName \in (IF kind = "move" THEN OpStateNames ELSE {""}),
          userIdentifier \in (IF kind = "assign" THEN OpUserIdentifiers ELSE {""}),
          text \in (IF kind = "comment" THEN OpTexts ELSE {""}) :
         issueOp' = [InitOp EXCEPT
                       !.pc = "getIssue", !.n = issueOp.n + 1, !.kind = kind,
                       !.issueKey = issueKey, !.stateName = stateName,
                       !.userIdentifier = userIdentifier, !.text = text]
  /\ UNCHANGED <<spec, remoteProjects, remoteMilestones, remoteIssues, loc, aborts,
                 remoteStates, remoteComments>>

\* an operation that goes on to the states without looking at the team
afterIssueAnyTeam(o) ==
  CASE o.kind = "comment" ->
         IF Trim(o.text) = "" THEN Reject(o, "Comment text is required.")
         ELSE [o EXCEPT !.pc = "createComment"]
    [] o.kind = "assign" ->
         IF Trim(o.userIdentifier) = "" THEN Reject(o, "User identifier is required.")
         ELSE [o EXCEPT !.pc = "findUser"]
    [] o.kind = "start" -> [o EXCEPT !.pc = "getStates"]
    [] o.kind = "move" ->
         IF Trim(o.stateName) = "" THEN Reject(o, "State name is required.")
         ELSE [o EXCEPT !.pc = "getStates"]

\* what each operation does with the issue getRequiredIssueByKey returned, up
\* to its next await
afterIssue(o) ==
  CASE o.kind = "comment" ->
         IF Trim(o.text) = "" THEN Reject(o, "Comment text is required.")
         ELSE [o EXCEPT !.pc = "createComment"]
    [] o.kind = "assign" ->
         IF Trim(o.userIdentifier) = "" THEN Reject(o, "User identifier is required.")
         ELSE [o EXCEPT !.pc = "findUser"]
    [] o.kind = "start" ->
         IF ~Truthy(o.issue.teamId) THEN Reject(o, "Issue has no team and cannot be started.")
         ELSE [o EXCEPT !.pc = "getStates"]
    [] o.kind = "move" ->
         IF Trim(o.stateName) = "" THEN Reject(o, "State name is required.")
         ELSE IF ~Truthy(o.issue.teamId)
              THEN Reject(o, "Issue has no team and cannot be moved.")
         ELSE [o EXCEPT !.pc = "getStates"]

\* getRequiredIssueByKey and the code that follows it
resolveIssue(o, issues) ==
  LET id == getIssueByKey(issues, o.issueKey)
      found == [logOpCall(o, "getIssueByKey", 0, Trim(o.issueKey))
                  EXCEPT !.issue = issues[id]]
  IN IF Trim(o.issueKey) = "" THEN Reject(o, "Issue key is required.")
     ELSE IF id = 0
       THEN Reject(logOpCall(o, "getIssueByKey", 0, Trim(o.issueKey)), "Issue not found")
     ELSE afterIssue(found)

GetIssue ==
  /\ issueOp.pc = "getIssue"
  /\ issueOp' = resolveIssue(issueOp, remoteIssues)
  /\ UNCHANGED <<spec, remoteProjects, remoteMilestones, remoteIssues, loc, aborts,
                 remoteStates, remoteComments>>

\* the result of move and start
StateResult(o, newState) ==
  [NoResult EXCEPT !.issueKey = o.issue.identifier,
                   !.previousState = getStateNameById(o.states, o.issue.stateId),
                   !.newState = newState.name]

\* an operation that writes the state whatever the issue's state is
resolveStateAlwaysWriting(o, states) ==
  LET got == [logOpCall(o, "getWorkflowStatesByTeam", 0, o.issue.teamId)
                EXCEPT !.states = states]
      state == IF o.kind = "start" THEN getFirstActiveState(states)
               ELSE findStateByName(states, Trim(o.stateName))
      resolved == [got EXCEPT !.target = state]
  IN IF state = NoState
       THEN Reject(got, IF o.kind = "start"
                          THEN "No active workflow state found for issue team."
                          ELSE "State not found in team workflow")
     ELSE [resolved EXCEPT !.pc = "updateIssue"]

\* getWorkflowStatesByTeam and the code that follows it, in startIssueByKey and
\* in moveIssueToStateInternal
resolveState(o, states) ==
  LET got == [logOpCall(o, "getWorkflowStatesByTeam", 0, o.issue.teamId)
                EXCEPT !.states = states]
      state == IF o.kind = "start" THEN getFirstActiveState(states)
               ELSE findStateByName(states, Trim(o.stateName))
      resolved == [got EXCEPT !.target = state]
  IN IF state = NoState
       THEN Reject(got, IF o.kind = "start"
                          THEN "No active workflow state found for issue team."
                          ELSE "State not found in team workflow")
     ELSE IF o.issue.stateId # state.id THEN [resolved EXCEPT !.pc = "updateIssue"]
     ELSE Return(resolved, StateResult(resolved, state))

GetStates ==
  /\ issueOp.pc = "getStates"
  /\ issueOp' = resolveState(issueOp, remoteStates)
  /\ UNCHANGED <<spec, remoteProjects, remoteMilestones, remoteIssues, loc, aborts,
                 remoteStates, remoteComments>>

\* an operation that takes the authenticated user when nobody matches
resolveUserOrViewer(o) ==
  LET asked == logOpCall(o, "findUserByIdentifier", 0, Trim(o.userIdentifier))
      user == findUserByIdentifier(Trim(o.userIdentifier))
  IN [asked EXCEPT !.user = IF user = NoUser THEN Viewer ELSE user,
                   !.pc = "updateIssue"]

\* client.findUserByIdentifier and the code that follows it
resolveUser(o) ==
  LET asked == logOpCall(o, "findUserByIdentifier", 0, Trim(o.userIdentifier))
      user == findUserByIdentifier(Trim(o.userIdentifier))
  IN IF user = NoUser THEN Reject(asked, "User not found")
     ELSE [asked EXCEPT !.user = user, !.pc = "updateIssue"]

FindUser ==
  /\ issueOp.pc = "findUser"
  /\ issueOp' = resolveUser(issueOp)
  /\ UNCHANGED <<spec, remoteProjects, remoteMilestones, remoteIssues, loc, aborts,
                 remoteStates, remoteComments>>

\* client.updateIssue(issue.id, { stateId }) of move and start, and
\* client.updateIssue(issue.id, { assigneeId: user.id }) of assign
UpdateIssue ==
  /\ issueOp.pc = "updateIssue"
  /\ LET id == issueOp.issue.id IN
       IF issueOp.kind = "assign"
       THEN /\ remoteIssues' =
                 [remoteIssues EXCEPT ![id] =
                    UpdatedIssue(@, {"assigneeId"},
                                 [NoInput EXCEPT !.assigneeId = issueOp.user])]
            /\ issueOp' =
                 Return(logOpCall(issueOp, "updateIssue", id, issueOp.user),
                        [NoResult EXCEPT
                           !.issueKey = issueOp.issue.identifier,
                           !.assignee = resolveUserLabel(UserById(issueOp.user))])
       ELSE /\ remoteIssues' =
                 [remoteIssues EXCEPT ![id] =
                    UpdatedIssue(@, {"stateId"},
                                 [NoInput EXCEPT !.stateId = issueOp.target.id])]
            /\ issueOp' =
                 Return(logOpCall(issueOp, "updateIssue", id, issueOp.target.id),
                        StateResult(issueOp, issueOp.target))
  /\ UNCHANGED <<spec, remoteProjects, remoteMilestones, loc, aborts,
                 remoteStates, remoteComments>>

\* client.createComment({ issueId: issue.id, body: text })
CreateComment ==
  /\ issueOp.pc = "createComment"
  /\ remoteComments' =
       Append(remoteComments, [issueId |-> issueOp.issue.id, body |-> Trim(issueOp.text)])
  /\ issueOp' =
       Return(logOpCall(issueOp, "createComment", issueOp.issue.id, Trim(issueOp.text)),
              [NoResult EXCEPT !.issueKey = issueOp.issue.identifier])
  /\ UNCHANGED <<spec, remoteProjects, remoteMilestones, remoteIssues, loc, aborts,
                 remoteStates>>

RemoteFailure == "Linear API operation failed"

\* the call the operation is waiting for fails: the client wraps the failure
\* and the operation throws it on
OpFail ==
  /\ issueOp.pc \in {"getIssue", "getStates", "findUser", "updateIssue", "createComment"}
  /\ issueOp.pc = "getIssue" => Trim(issueOp.issueKey) # ""
  /\ aborts < MaxAborts
  /\ aborts' = aborts + 1
  /\ issueOp' = Reject(issueOp, RemoteFailure)
  /\ UNCHANGED <<spec, remoteProjects, remoteMilestones, remoteIssues, loc,
                 remoteStates, remoteComments>>

OpsInit ==
  /\ spec = BodySpec(<<"a">>)
  /\ remoteProjects = <<Project("Other", <<>>, TRUE)>>
  /\ remoteMilestones = <<>>
  /\ remoteIssues = OpIssues
  /\ loc = [p \in Procs |-> InitLoc]
  /\ aborts = 0
  /\ remoteStates \in OpStateLists
  /\ remoteComments = <<>>
  /\ issueOp = InitOp

OpsNext ==
  \/ InvokeOp
  \/ GetIssue
  \/ GetStates
  \/ FindUser
  \/ UpdateIssue
  \/ CreateComment
  \/ OpFail

OpsSpec == OpsInit /\ [][OpsNext]_vars

\* ------------------------------------------------ one project, many spellings
\* The project name of the spec file is edited between runs: the same name in
\* another letter case or with spaces around it.
NameVariants == {"Engine", " engine ", "engine"}

NamedSpec(name) == [BodySpec(<<"a">>) EXCEPT !.project.name = name]

EditName ==
  /\ \A p \in Procs : loc[p].pc \in {"idle", "done", "aborted"}
  /\ \E name \in NameVariants \ {spec.project.name} : spec' = NamedSpec(name)
  /\ UNCHANGED <<remoteProjects, remoteMilestones, remoteIssues, loc, aborts,
                 issueOpVars>>

NamesInit ==
  /\ spec \in {NamedSpec(name) : name \in NameVariants}
  /\ \/ /\ remoteProjects = BodyRemote.projects
        /\ remoteMilestones = BodyRemote.milestones
        /\ remoteIssues = BodyRemote.issues
     \/ /\ remoteProjects = <<Project("Other", <<>>, TRUE)>>
        /\ remoteMilestones = <<>>
        /\ remoteIssues = OtherIssues
  /\ loc = [p \in Procs |-> InitLoc]
  /\ aborts = 0
  /\ remoteStates = TeamStates
  /\ remoteComments = <<>>
  /\ issueOp = InitOp

NamesNext == Next \/ EditName

NamesSpec == NamesInit /\ [][NamesNext]_vars

\* --------------------------------------------------- a sync run and a move
\* One process runs syncProject while another moves an issue of the project
\* by key; their awaits interleave freely.  The tracker holds the project, its
\* milestone and the epic's issue COG-3; the run creates the story as COG-4.
MoveKeys == {"COG-3", "COG-4"}

MoveStateNames == {"todo", " In Progress ", "Ghost"}

\* moveIssueByKeyToState is called, once
InvokeMove ==
  /\ issueOp.pc = "idle"
  /\ \E issueKey \in MoveKeys, stateName \in MoveStateNames :
       issueOp' = [InitOp EXCEPT
                     !.pc = "getIssue", !.n = 1, !.kind = "move",
                     !.issueKey = issueKey, !.stateName = stateName]
  /\ UNCHANGED <<spec, remoteProjects, remoteMilestones, remoteIssues, loc, aborts,
                 remoteStates, remoteComments>>

SyncMoveInit ==
  /\ spec \in {BodySpec(d) : d \in {<<"a">>, <<"b">>}}
  /\ remoteProjects = BodyRemote.projects
  /\ remoteMilestones = BodyRemote.milestones
  /\ remoteIssues = BodyRemote.issues
  /\ loc = [p \in Procs |-> InitLoc]
  /\ aborts = 0
  /\ remoteStates = TeamStates
  /\ remoteComments = <<>>
  /\ issueOp = InitOp

SyncMoveNext ==
  \/ \E p \in Procs : SyncStep(p)
  \/ InvokeMove
  \/ GetIssue
  \/ GetStates
  \/ UpdateIssue
  \/ OpFail

SyncMoveSpec == SyncMoveInit /\ [][SyncMoveNext]_vars

\* ------------------------------------------------- the workflow functions alone
\* findStateByName and getFirstActiveState applied to every workflow of
\* StateLists and every name of StateNames
WorkflowInit ==
  /\ spec = BodySpec(<<"a">>)
  /\ remoteProjects = BodyRemote.projects
  /\ remoteMilestones = BodyRemote.milestones
  /\ remoteIssues = BodyRemote.issues
  /\ loc = [p \in Procs |-> InitLoc]
  /\ aborts = 0
  /\ remoteStates \in StateLists
  /\ remoteComments = <<>>
  /\ issueOp = InitOp

ResolveStates ==
  /\ issueOp.pc = "idle"
  /\ \E stateName \in StateNames :
       issueOp' = [InitOp EXCEPT
                     !.pc = "done", !.n = 1, !.kind = "resolve",
                     !.stateName = stateName,
                     !.states = remoteStates,
                     !.target = findStateByName(remoteStates, stateName),
                     !.nextState = getFirstActiveState(remoteStates)]
  /\ UNCHANGED <<spec, remoteProjects, remoteMilestones, remoteIssues, loc, aborts,
                 remoteStates, remoteComments>>

WorkflowNext == ResolveStates

WorkflowSpec == WorkflowInit /\ [][WorkflowNext]_vars

\* ------------------------------------------------------------------ the claims
\* remote ids are positions, in every collection
IdsArePositions ==
  \A i \in 1..Len(remoteIssues) : remoteIssues[i].id = i


\* the calls of an invocation that create or update an issue
IssueWrites(l) ==
  {k \in 1..Len(l.calls) : l.calls[k].op \in {"createIssue", "updateIssue"}}

\* C1: no create or update that syncProject issues carries a workflow-state
\* field, and every issue that existed when the run began is in the same
\* workflow state at every point of the run, so also when the run has completed
\* or aborted.
C1_WorkflowStateUntouched ==
  \A p \in Procs :
    LET l == loc[p] IN
    /\ \A k \in 1..Len(l.calls) :
         l.calls[k].op \in MutatingOps => "stateId" \notin l.calls[k].fields
    /\ l.pc # "idle" =>
         \A i \in 1..Len(l.snap) : remoteIssues[i].stateId = l.snap[i].stateId

\* a run has ended, completed or aborted, after it rewrote the description of an
\* issue that existed before in a state other than the initial one
C1_Witness ==
  \E p \in Procs :
    LET l == loc[p] IN
    /\ l.pc \in {"done", "aborted"}
    /\ \E k \in IssueWrites(l) :
         /\ l.calls[k].op = "updateIssue"
         /\ "description" \in l.calls[k].fields
         /\ l.calls[k].id <= Len(l.snap)
         /\ l.snap[l.calls[k].id].stateId # DefaultState


\* the run at hand follows a completed run of the same spec, and nothing but
\* these runs has touched the remote
SecondRun(l) == l.run >= 2 /\ l.prev = "done"

DescriptionReasons == {"description synchronized", "description unchanged"}

\* C2: when a run of syncProject follows a completed run of the same spec with no
\* remote change in between, its report holds no Created record, its project
\* record is Skipped and every epic and story description record is Skipped.
C2_SecondReportSkipped ==
  \A p \in Procs :
    LET l == loc[p] IN
    SecondRun(l) /\ l.pc = "done" =>
      \A k \in 1..Len(l.report) :
        LET a == l.report[k] IN
        /\ a.status # "Created"
        /\ a.entity = "project" => a.status = "Skipped"
        /\ a.entity \in {"epic", "story"} /\ a.reason \in DescriptionReasons
             => a.status = "Skipped"

\* two spec entries ask for the same description
SameDescription(x, y) ==
  normalizeDescription(ensureManagedMetadata(x.description))
    = normalizeDescription(ensureManagedMetadata(y.description))

\* spec entries that match the same issue (epics of one title, stories of one
\* title under epics of one title) ask for the same description
ConsistentEntries(sp) ==
  \A e1, e2 \in 1..Len(sp.epics) :
    sp.epics[e1].title = sp.epics[e2].title =>
      /\ SameDescription(sp.epics[e1], sp.epics[e2])
      /\ \A s1 \in 1..Len(sp.epics[e1].stories), s2 \in 1..Len(sp.epics[e2].stories) :
           sp.epics[e1].stories[s1].title = sp.epics[e2].stories[s2].title =>
             SameDescription(sp.epics[e1].stories[s1], sp.epics[e2].stories[s2])

\* C3: a run that follows a completed run of the same spec with no remote change
\* in between issues no mutating remote operation at all, also for the epics and
\* stories that have a resolved milestone.  Stated for the specs whose entries
\* agree, where a second run has nothing left to write.
C3_SecondRunMutatesNothing ==
  \A p \in Procs :
    LET l == loc[p] IN
    SecondRun(l) /\ ConsistentEntries(spec) =>
      \A k \in 1..Len(l.calls) : l.calls[k].op \notin MutatingOps

\* the milestone the entity at hand resolves to, 0 when the project has none of
\* that name
ResolvedMilestoneId(l) ==
  LET found == {i \in ProjectMilestoneIds(remoteMilestones, l.project) :
                  remoteMilestones[i].name = Trim(l.milestoneName)}
  IN IF found = {} THEN 0 ELSE First(found)

\* C4: when the issue of an epic or story was attached to the resolved milestone
\* before the run, the attachment step of that entity adds no record to the
\* report (no milestone-assignment record, no 'milestone assigned' Updated
\* record).
C4_NoRecordWhenAlreadyAttached ==
  [][\A p \in Procs :
       LET l == loc[p]
           id == l.issues[l.issue].id
       IN (/\ l.pc = "attach"
           /\ loc'[p].pc \notin {"attach", "aborted"}
           /\ id <= Len(l.snap)
           /\ ResolvedMilestoneId(l) # 0
           /\ l.snap[id].projectMilestoneId = ResolvedMilestoneId(l)
           /\ remoteIssues[id].projectMilestoneId = ResolvedMilestoneId(l))
          => loc'[p].report = l.report]_vars

\* ---------------------------------------------------------------- assignees
\* the remote id of the issue that matches the entity at hand: before
\* findIssueByTitle has run the one it will find, after it the one it found
\* or created; 0 when there is none
MatchedIssue(l, sp) ==
  IF l.pc = "reconcile" THEN
    LET entity == EntitySpec(sp, l.e, l.s)
        parentId == IF l.s = 0 THEN 0 ELSE l.issues[l.epicIssue].id
        pos == findIssueByTitle(l.issues, entity.title, parentId)
    IN IF pos = 0 THEN 0 ELSE l.issues[pos].id
  ELSE IF l.pc \in {"describe", "attach"} THEN l.issues[l.issue].id
  ELSE 0

\* the calls and the records a step adds
NewCalls(l, l2) == {l2.calls[k] : k \in (Len(l.calls) + 1)..Len(l2.calls)}
NewRecords(l, l2) == {l2.report[k] : k \in (Len(l.report) + 1)..Len(l2.report)}

AssigneeReasons == {"assignee set from spec", "Assigned issue to current user"}

\* C5: while the engine reconciles an epic or story whose spec has no assignee
\* field and whose matching issue is assigned to some user U, no step sends an
\* update that carries an assignee, the issue stays assigned to U, and no record
\* about an assignee is added to the report.
C5_ExistingAssigneeKept ==
  [][\A p \in Procs :
       LET l == loc[p]
           id == MatchedIssue(l, spec)
       IN (/\ l.pc \in {"reconcile", "describe", "attach"}
           /\ EntitySpec(spec, l.e, l.s).assignee = NoField
           /\ id # 0
           /\ getIssueAssigneeId(remoteIssues[id]) # NoUser)
          => /\ getIssueAssigneeId(remoteIssues'[id]) = getIssueAssigneeId(remoteIssues[id])
             /\ \A c \in NewCalls(l, loc'[p]) :
                  c.op = "updateIssue" => "assigneeId" \notin c.fields
             /\ \A a \in NewRecords(l, loc'[p]) : a.reason \notin AssigneeReasons]_vars

\* findIssueByTitle has matched an issue that existed before the run and is
\* assigned to a user other than the current one, for an entity with no
\* assignee field, and syncIssueAssignee has run
C5_Witness ==
  \E p \in Procs :
    LET l == loc[p] IN
    /\ l.pc = "describe"
    /\ EntitySpec(spec, l.e, l.s).assignee = NoField
    /\ l.issues[l.issue].id <= Len(l.snap)
    /\ getIssueAssigneeId(remoteIssues[l.issues[l.issue].id]) \notin {NoUser, Viewer}

\* the assignee reference of the entity at hand matches no user and is the key
\* of an issue that has an assignee
ReferenceIsAssignedIssue(l, sp, I) ==
  LET ref == EntitySpec(sp, l.e, l.s).assignee IN
  /\ Truthy(ref) /\ Trim(ref) # ""
  /\ findUserByIdentifier(Trim(ref)) = NoUser
  /\ getIssueByKey(I, Trim(ref)) # 0
  /\ getIssueAssigneeId(I[getIssueByKey(I, Trim(ref))]) # NoUser

ReferencedAssignee(l, sp, I) ==
  getIssueAssigneeId(I[getIssueByKey(I, Trim(EntitySpec(sp, l.e, l.s).assignee))])

\* C6: when the assignee reference of an epic or story matches no user and is
\* the key of an issue assigned to U9, the step that creates the entity's issue
\* or syncs its assignee leaves that issue assigned to U9, and a create call
\* carries assigneeId U9.
C6_AssigneeFromIssueKey ==
  [][\A p \in Procs :
       LET l == loc[p]
           u9 == ReferencedAssignee(l, spec, remoteIssues)
           matched == MatchedIssue(l, spec)
           id == IF matched = 0 THEN Len(remoteIssues) + 1 ELSE matched
       IN (/\ l.pc = "reconcile"
           /\ loc'[p].pc # "aborted"
           /\ ReferenceIsAssignedIssue(l, spec, remoteIssues))
          => /\ id <= Len(remoteIssues')
             /\ getIssueAssigneeId(remoteIssues'[id]) = u9
             /\ matched = 0 =>
                  \E c \in NewCalls(l, loc'[p]) :
                    /\ c.op = "createIssue" /\ c.id = id
                    /\ "assigneeId" \in c.fields /\ c.in.assigneeId = u9
             /\ \A c \in NewCalls(l, loc'[p]) :
                  "assigneeId" \in c.fields /\ c.in.assigneeId = u9]_vars

\* a run has ended in which such a reference gave one new issue its assignee
\* and replaced the assignee of an issue that existed before
C6_Witness ==
  \E p \in Procs :
    LET l == loc[p] IN
    /\ l.pc = "done"
    /\ \E k \in IssueWrites(l) :
         /\ l.calls[k].op = "createIssue"
         /\ EntitySpec(spec, l.calls[k].e, l.calls[k].s).assignee = "COG-1"
         /\ l.calls[k].in.assigneeId = "u9"
         /\ remoteIssues[l.calls[k].id].assigneeId = "u9"
    /\ \E k \in IssueWrites(l) :
         /\ l.calls[k].op = "updateIssue"
         /\ EntitySpec(spec, l.calls[k].e, l.calls[k].s).assignee = "COG-1"
         /\ l.calls[k].id <= Len(l.snap)
         /\ l.snap[l.calls[k].id].assigneeId \notin {"u9"}
         /\ "assigneeId" \in l.calls[k].fields
         /\ remoteIssues[l.calls[k].id].assigneeId = "u9"

\* --------------------------------------------------------------- milestones
\* C7: a story with no milestone field of its own resolves to the milestone
\* name its epic resolved to, whether that came from the epic's milestone field
\* or from a top-level milestone named as the epic's title; a completed run has
\* attached the story's issue to it.
C7_StoryInheritsResolvedName ==
  \A p \in Procs :
    LET l == loc[p] IN
    /\ (/\ l.pc \in {"resolveAssignee", "reconcile", "describe", "attach"}
        /\ l.s > 0
        /\ spec.epics[l.e].stories[l.s].milestone = NoField)
       => l.milestoneName = resolveEpicMilestoneName(spec, spec.epics[l.e])
    /\ l.pc = "done" =>
         \A e \in 1..Len(spec.epics) : \A s \in 1..Len(spec.epics[e].stories) :
           (/\ spec.epics[e].stories[s].milestone = NoField
            /\ Truthy(resolveEpicMilestoneName(spec, spec.epics[e])))
           => \E k \in IssueWrites(l) :
                /\ l.calls[k].e = e /\ l.calls[k].s = s
                /\ "projectMilestoneId" \in l.calls[k].fields

\* ------------------------------------------------------------- project only
ProjectOps == {"getProjectByName", "createProject", "updateProject"}

\* C8: for a spec with no epics and no milestones a run makes no call but the
\* project lookup and at most one createProject or updateProject (it lists no
\* issues, fetches no user, creates or updates no issue or milestone), and the
\* report of a completed run holds exactly one record, for the project.
C8_ProjectOnly ==
  \A p \in Procs :
    LET l == loc[p] IN
    (Len(spec.epics) = 0 /\ Len(spec.milestones) = 0) =>
      /\ \A k \in 1..Len(l.calls) : l.calls[k].op \in ProjectOps
      /\ Cardinality({k \in 1..Len(l.calls) : l.calls[k].op \in MutatingOps}) <= 1
      /\ Cardinality({k \in 1..Len(l.calls) : l.calls[k].op = "getProjectByName"}) <= 1
      /\ l.cachedUser = NoUser
      /\ Len(l.report) <= 1
      /\ l.pc = "done" => Len(l.report) = 1 /\ l.report[1].entity = "project"
      /\ l.pc # "idle" =>
           remoteIssues = l.snap /\ remoteMilestones = l.snapMilestones

\* a run of a spec with no epics and no milestones has completed after it
\* updated the description of the project
C8_Witness ==
  \E p \in Procs :
    LET l == loc[p] IN
    /\ Len(spec.epics) = 0 /\ Len(spec.milestones) = 0
    /\ l.pc = "done"
    /\ \E k \in 1..Len(l.calls) : l.calls[k].op = "updateProject"
    /\ l.report = <<Action("Updated", "project", "Engine", NoField)>>

\* ------------------------------------------------------------- descriptions
\* the calls of an invocation that write an issue description
DescriptionWrites(l) ==
  {k \in IssueWrites(l) : "description" \in l.calls[k].fields}

\* the body the spec gives the entity a call was made for
BodyOf(c) == EntitySpec(spec, c.e, c.s).description

\* C9 as stated: every issue description that sync writes, on create and on
\* update, is the sentinel line, a blank line and the spec body with the
\* sentinel stripped and whitespace trimmed.
C9_SentinelBlankLineBody ==
  \A p \in Procs :
    \A k \in DescriptionWrites(loc[p]) :
      LET c == loc[p].calls[k] IN
      c.in.description
        = MANAGED_METADATA_LINE \o <<"NL", "NL">> \o stripManagedMetadata(BodyOf(c))

\* C9 as amended: every issue description that sync writes, on create and on
\* update, begins with the sentinel line; it is the sentinel line, a blank line
\* and the stripped and trimmed spec body when that body is not empty, and the
\* sentinel line alone when it is.
C9_SentinelThenBodyIfAny ==
  \A p \in Procs :
    \A k \in DescriptionWrites(loc[p]) :
      LET c == loc[p].calls[k]
          d == c.in.description
          body == stripManagedMetadata(BodyOf(c))
      IN /\ Len(d) >= 1 /\ SubSeq(d, 1, 1) = MANAGED_METADATA_LINE
         /\ body # <<>> => d = MANAGED_METADATA_LINE \o <<"NL", "NL">> \o body
         /\ body = <<>> => d = MANAGED_METADATA_LINE

\* a run has completed that created one issue and updated another from a spec
\* body that is not empty but holds nothing besides sentinel and whitespace
C9_Witness ==
  \E p \in Procs :
    LET l == loc[p] IN
    /\ l.pc = "done"
    /\ \E k \in DescriptionWrites(l) :
         /\ l.calls[k].op = "createIssue"
         /\ BodyOf(l.calls[k]) # <<>>
         /\ stripManagedMetadata(BodyOf(l.calls[k])) = <<>>
    /\ \E k \in DescriptionWrites(l) :
         /\ l.calls[k].op = "updateIssue"
         /\ BodyOf(l.calls[k]) # <<>>
         /\ stripManagedMetadata(BodyOf(l.calls[k])) = <<>>

\* -------------------------------------------------------------- recovery
\* the issues of a project with a title and a parent (0 = top level)
IssuesTitled(I, projectId, title, parentId) ==
  {i \in 1..Len(I) : /\ I[i].projectId = projectId
                      /\ I[i].title = title
                      /\ I[i].parentId = parentId}

\* the run at hand follows a run of the same spec that aborted
RecoveryRun(l) == l.run >= 2 /\ l.prev = "aborted"

\* C10: when a run aborted and a later run of the same spec completes, every
\* spec epic exists exactly once as a top-level issue of the project and every
\* spec story exactly once under its epic, and the later run has created only
\* what did not exist when it began, each entity at most once.
C10_ForwardRecovery ==
  \A p \in Procs :
    LET l == loc[p]
        creates == {k \in 1..Len(l.calls) : l.calls[k].op = "createIssue"}
    IN
    RecoveryRun(l) =>
      /\ l.pc = "done" =>
           \A e \in 1..Len(spec.epics) :
             LET epics == IssuesTitled(remoteIssues, l.project, spec.epics[e].title, 0) IN
             /\ Cardinality(epics) = 1
             /\ \A s \in 1..Len(spec.epics[e].stories) : \A parent \in epics :
                  Cardinality(IssuesTitled(remoteIssues, l.project,
                                           spec.epics[e].stories[s].title, parent)) = 1
      /\ \A k \in creates :
           LET c == l.calls[k] IN
           /\ IssuesTitled(l.snap, l.project, c.in.title, c.in.parentId) = {}
           /\ \A j \in creates :
                (l.calls[j].in.title = c.in.title /\ l.calls[j].in.parentId = c.in.parentId)
                => j = k
      /\ \A k \in 1..Len(l.calls) :
           /\ l.calls[k].op = "createProject" =>
                getProjectByName(l.snapProjects, l.calls[k].in.name) = 0
           /\ l.calls[k].op = "createMilestone" =>
                l.calls[k].in.name \notin MilestoneNames(l.snapMilestones, l.project)
      /\ Cardinality({k \in 1..Len(l.report) : l.report[k].status = "Created"})
           = Cardinality({k \in 1..Len(l.calls) :
                            l.calls[k].op \in {"createProject", "createMilestone",
                                                "createIssue"}})

\* a run aborted after it had created an issue, and the run after it has
\* completed and created another
C10_Witness ==
  \E p \in Procs :
    LET l == loc[p] IN
    /\ RecoveryRun(l) /\ l.pc = "done"
    /\ Len(l.snap) > Len(l.snap0)
    /\ Len(remoteIssues) > Len(l.snap)
    /\ \E k \in 1..Len(l.report) :
         l.report[k].status = "Created" /\ l.report[k].entity = "story"

\* ------------------------------------------------------------------ project
ProjectMutations == {"createProject", "updateProject"}

\* the part of a sequence after its first n elements
Added(old, new) == SubSeq(new, Len(old) + 1, Len(new))

\* C11: the step of a run that reconciles the project adds exactly one record,
\* the first of the report, and at most one project mutation: one createProject
\* with the spec description and Created when no project has the name; one
\* updateProject and Updated when the stored description is not the same
\* string as the spec's; no call and Skipped 'description unchanged' when it
\* is.  No other step adds a project record or a project mutation.
C11_OneProjectRecord ==
  [][\A p \in Procs :
       LET l == loc[p]
           calls == Added(l.calls, loc'[p].calls)
           records == Added(l.report, loc'[p].report)
           id == getProjectByName(remoteProjects, Trim(spec.project.name))
           desired == spec.project.description
       IN IF l.pc = "ensureProject" /\ loc'[p].pc # "aborted" THEN
            /\ l.report = <<>> /\ Len(records) = 1
            /\ records[1].entity = "project"
            /\ records[1].name = Trim(spec.project.name)
            /\ IF id = 0 THEN
                 /\ Len(calls) = 1 /\ calls[1].op = "createProject"
                 /\ calls[1].in.description = desired
                 /\ records[1].status = "Created"
                 /\ remoteProjects'[Len(remoteProjects')].description = desired
               ELSE IF remoteProjects[id].description # desired THEN
                 /\ Len(calls) = 1 /\ calls[1].op = "updateProject"
                 /\ calls[1].id = id /\ calls[1].in.description = desired
                 /\ records[1].status = "Updated"
                 /\ remoteProjects'[id].description = desired
               ELSE
                 /\ calls = <<>> /\ remoteProjects' = remoteProjects
                 /\ records[1].status = "Skipped"
                 /\ records[1].reason = "description unchanged"
          ELSE IF loc'[p].run = l.run THEN
            /\ \A k \in 1..Len(calls) : calls[k].op \notin ProjectMutations
            /\ \A k \in 1..Len(records) : records[k].entity # "project"
            /\ remoteProjects' = remoteProjects
          ELSE TRUE]_vars

\* the project was updated because its stored description, though the same
\* text once managed metadata is set aside, is another string than the spec's
C11_Witness ==
  \E p \in Procs :
    LET l == loc[p] IN
    /\ l.pc = "done" /\ l.run = 1
    /\ l.snapProjects[l.project].description = StoredA
    /\ spec.project.description = BodyA
    /\ l.report[1] = Action("Updated", "project", "Engine", NoField)
    /\ remoteProjects[l.project].description = BodyA

\* --------------------------------------------------- milestone reconciliation
\* the milestone name of a story by the rule of the specification: its own
\* field, else the name its epic resolved to
StoryNameByRule(sp, e, s) ==
  IF Truthy(OptTrim(sp.epics[e].stories[s].milestone))
  THEN Trim(sp.epics[e].stories[s].milestone)
  ELSE resolveEpicMilestoneName(sp, sp.epics[e])

\* the union of the top-level names and of every epic's and story's name
DesiredNameSet(sp) ==
  {n \in {Trim(sp.milestones[i].name) : i \in 1..Len(sp.milestones)}
          \cup {resolveEpicMilestoneName(sp, sp.epics[e]) : e \in 1..Len(sp.epics)}
          \cup UNION {{StoryNameByRule(sp, e, s) : s \in 1..Len(sp.epics[e].stories)} :
                       e \in 1..Len(sp.epics)} :
     Truthy(n)}

\* the run is past the loop of ensureMilestones
PastMilestoneLoop(l) ==
  l.pc \in {"verifyMilestones", "fetchIssues", "resolveAssignee", "reconcile",
            "describe", "attach", "done"}

MilestoneRecords(l, n) ==
  {k \in 1..Len(l.report) : l.report[k].entity = "milestone" /\ l.report[k].name = n}

MilestoneCreations(l, n) ==
  {k \in 1..Len(l.calls) : l.calls[k].op = "createMilestone" /\ l.calls[k].in.name = n}

\* C12: once a run is past milestone reconciliation its report holds exactly
\* one milestone record for each name of the desired set (the union of the
\* top-level names and of every epic's and story's resolved name) and for no
\* other name: Created, with one createMilestone call, when the project had no
\* milestone of that name when the run began, and Skipped 'already exists',
\* with no call, when it had.
C12_OneRecordPerDesiredName ==
  \A p \in Procs :
    LET l == loc[p]
        existing == MilestoneNames(l.snapMilestones, l.project)
    IN PastMilestoneLoop(l) =>
         /\ \A k \in 1..Len(l.report) :
              l.report[k].entity = "milestone" => l.report[k].name \in DesiredNameSet(spec)
         /\ \A k \in 1..Len(l.calls) :
              l.calls[k].op = "createMilestone" => l.calls[k].in.name \in DesiredNameSet(spec)
         /\ \A n \in DesiredNameSet(spec) :
              /\ Cardinality(MilestoneRecords(l, n)) = 1
              /\ \A k \in MilestoneRecords(l, n) :
                   IF n \in existing
                   THEN /\ l.report[k].status = "Skipped"
                        /\ l.report[k].reason = "already exists"
                        /\ MilestoneCreations(l, n) = {}
                   ELSE /\ l.report[k].status = "Created"
                        /\ Cardinality(MilestoneCreations(l, n)) = 1

\* a run has completed for a spec that names one milestone at the top level
\* and for its epic, and another for a story; one existed and one did not
C12_Witness ==
  \E p \in Procs :
    LET l == loc[p] IN
    /\ l.pc = "done"
    /\ Cardinality(DesiredNameSet(spec)) = 2
    /\ Len(spec.epics) = 1
    /\ \E i \in 1..Len(spec.milestones) :
         Trim(spec.milestones[i].name) = resolveEpicMilestoneName(spec, spec.epics[1])
    /\ \E k \in 1..Len(l.report) :
         l.report[k].entity = "milestone" /\ l.report[k].status = "Created"
    /\ \E k \in 1..Len(l.report) :
         l.report[k].entity = "milestone" /\ l.report[k].status = "Skipped"

\* ------------------------------------------------------------- report order
\* project records come first, then milestone records, then those of epics
\* and stories
Rank(a) ==
  CASE a.entity = "project" -> 0
    [] a.entity = "milestone" -> 1
    [] OTHER -> 2

\* the entity that follows (e, s) in spec order, depth first; <<0, 0>> after
\* the last
NextEntity(sp, e, s) ==
  IF s < Len(sp.epics[e].stories) THEN <<e, s + 1>>
  ELSE IF e < Len(sp.epics) THEN <<e + 1, 0>>
  ELSE <<0, 0>>

InEntity(l) == l.pc \in {"resolveAssignee", "reconcile", "describe", "attach"}

\* C13: the report lists records in evaluation order.  A step only appends;
\* the project step appends project records, the milestone loop milestone
\* records, and a step taken for an epic or story only records of that epic or
\* story; the engine goes through the epics in spec order and through the
\* stories of an epic, in spec order, before the next epic.  So the project
\* record is first, milestone records precede every epic and story record, and
\* the records of an epic are followed by those of its own stories.
C13_EvaluationOrder ==
  [][\A p \in Procs :
       LET l == loc[p]
           l2 == loc'[p]
           records == Added(l.report, l2.report)
       IN l2.run = l.run =>
            /\ Len(l2.report) >= Len(l.report)
            /\ SubSeq(l2.report, 1, Len(l.report)) = l.report
            /\ \A i, j \in 1..Len(l2.report) :
                 i < j => Rank(l2.report[i]) <= Rank(l2.report[j])
            /\ \A k \in 1..Len(l2.report) :
                 Rank(l2.report[k]) = 0 => k = 1
            /\ \A k \in 1..Len(records) :
                 CASE l.pc = "ensureProject" -> records[k].entity = "project"
                   [] l.pc = "ensureMilestones" -> records[k].entity = "milestone"
                   [] l.pc \in {"reconcile", "describe", "attach"} ->
                        /\ records[k].entity \in {EntityKind(l.s), "milestone-assignment"}
                        /\ records[k].name = EntitySpec(spec, l.e, l.s).title
                   [] OTHER -> FALSE
            /\ (l.pc = "fetchIssues" /\ l2.pc # "aborted") => <<l2.e, l2.s>> = <<1, 0>>
            /\ (InEntity(l) /\ InEntity(l2)) =>
                 <<l2.e, l2.s>> \in {<<l.e, l.s>>, NextEntity(spec, l.e, l.s)}
            /\ (InEntity(l) /\ l2.pc = "done") => NextEntity(spec, l.e, l.s) = <<0, 0>>]_vars

\* a run has completed for two epics with a story each, the second epic with a
\* milestone: project, milestone, first epic, its story, second epic with its
\* milestone assignment, its story
C13_Witness ==
  \E p \in Procs :
    LET l == loc[p] IN
    /\ l.pc = "done"
    /\ [k \in 1..Len(l.report) |-> <<l.report[k].entity, l.report[k].name>>]
         = << <<"project", "Engine">>, <<"milestone", "Epic B">>,
              <<"epic", "Epic A">>, <<"story", "S1">>,
              <<"epic", "Epic B">>, <<"epic", "Epic B">>,
              <<"milestone-assignment", "Epic B">>, <<"story", "S1">> >>

\* ---------------------------------------------------------- story matching
\* the issue an epic resolves to in a tracker: the top-level issue of the
\* project with its title
EpicIssues(I, projectId, sp, e) == IssuesTitled(I, projectId, sp.epics[e].title, 0)

\* C14: the step that matches or creates the issue of an epic or story takes,
\* for an epic, only a parentless issue of the epic's title and, for a story,
\* only an issue of the story's title whose parent is the issue of its epic;
\* when there is none it creates one with that parent.  When a run completes,
\* two epics of different titles that each declare a story of the same title
\* have one story issue each, under their own epic issue.
C14_StoryMatchesUnderItsEpic ==
  [][\A p \in Procs :
       LET l == loc[p]
           l2 == loc'[p]
           entity == EntitySpec(spec, l.e, l.s)
           parentId == IF l.s = 0 THEN 0 ELSE l.issues[l.epicIssue].id
       IN /\ (l.pc = "reconcile" /\ l2.pc # "aborted") =>
               /\ l.s > 0 => parentId \in EpicIssues(remoteIssues, l.project, spec, l.e)
               /\ IF l2.pc = "describe"
                  THEN LET id == l2.issues[l2.issue].id IN
                       /\ id \in IssuesTitled(remoteIssues, l.project, entity.title, parentId)
                       /\ Len(remoteIssues') = Len(remoteIssues)
                  ELSE /\ IssuesTitled(remoteIssues, l.project, entity.title, parentId) = {}
                       /\ Len(remoteIssues') = Len(remoteIssues) + 1
                       /\ Len(remoteIssues') \in
                            IssuesTitled(remoteIssues', l.project, entity.title, parentId)
          /\ (l2.pc = "done" /\ l.pc # "done") =>
               \A e1, e2 \in 1..Len(spec.epics) :
                 \A s1 \in 1..Len(spec.epics[e1].stories) :
                   \A s2 \in 1..Len(spec.epics[e2].stories) :
                     (/\ spec.epics[e1].title # spec.epics[e2].title
                      /\ spec.epics[e1].stories[s1].title = spec.epics[e2].stories[s2].title)
                     => \A i1 \in EpicIssues(remoteIssues', l.project, spec, e1) :
                          \A i2 \in EpicIssues(remoteIssues', l.project, spec, e2) :
                            /\ i1 # i2
                            /\ Cardinality(IssuesTitled(remoteIssues', l.project,
                                  spec.epics[e1].stories[s1].title, i1)) = 1
                            /\ Cardinality(IssuesTitled(remoteIssues', l.project,
                                  spec.epics[e2].stories[s2].title, i2)) = 1]_vars

\* a run has completed for two epics that each declare a story 'S1', in a
\* project that held a top-level issue 'S1' before: there are three issues of
\* that title now, the old one and one under each epic
C14_Witness ==
  \E p \in Procs :
    LET l == loc[p] IN
    /\ l.pc = "done"
    /\ Len(spec.epics) = 2
    /\ spec.epics[1].title # spec.epics[2].title
    /\ \A e \in 1..2 : Len(spec.epics[e].stories) = 1 /\ spec.epics[e].stories[1].title = "S1"
    /\ IssuesTitled(l.snap0, l.project, "S1", 0) # {}
    /\ \A e \in 1..2 : \E i \in EpicIssues(remoteIssues, l.project, spec, e) :
         Cardinality(IssuesTitled(remoteIssues, l.project, "S1", i)) = 1
    /\ Cardinality({i \in 1..Len(remoteIssues) :
                      remoteIssues[i].projectId = l.project /\ remoteIssues[i].title = "S1"}) = 3

\* the orders a list can be given in
Orders(list) ==
  {o \in ListsOf({list[i] : i \in 1..Len(list)}, Len(list)) : Len(o) = Len(list)}

\* the states the preference order of getFirstActiveState chooses among: those
\* of type started, else those whose name marks them as active, else those
\* that do not end an issue
Preferred(states) ==
  LET all == {states[i] : i \in 1..Len(states)}
      started == {state \in all : TypeOf(state) = "started"}
      named == {state \in all : NameLooksActive(state.name)}
      open == {state \in all : TypeOf(state) \notin COMPLETED_TYPES}
  IN IF started # {} THEN started ELSE IF named # {} THEN named ELSE open

LowestPosition(states, state) ==
  /\ state \in Preferred(states)
  /\ \A other \in Preferred(states) : PositionOf(state) <= PositionOf(other)

DistinctPositions(states) ==
  \A i, j \in 1..Len(states) :
     i # j => PositionOf(states[i]) # PositionOf(states[j])

\* C16 as stated: the first active state is a lowest-position state of type
\* started, else a lowest-position state whose name contains one of the four
\* words, else a lowest-position state that is neither completed nor canceled,
\* else absent, and it is the same state in whatever order the states are given.
C16_IndependentOfInputOrder ==
  issueOp.kind = "resolve" =>
    /\ IF Preferred(issueOp.states) = {} THEN issueOp.nextState = NoState
       ELSE LowestPosition(issueOp.states, issueOp.nextState)
    /\ \A o \in Orders(issueOp.states) : getFirstActiveState(o) = issueOp.nextState

\* C16, amended: the first active state is a lowest-position state of the
\* first non-empty class of the preference order (type started, name match,
\* not completed or canceled), a missing position counting as 0, and absent
\* when all three classes are empty; among the states of that class at the
\* lowest position it is the one given first, so it is independent of the
\* input order whenever no two states share a position.
C16_FirstActiveState ==
  issueOp.kind = "resolve" =>
    LET states == issueOp.states
        lowest == {i \in 1..Len(states) : LowestPosition(states, states[i])}
    IN /\ IF Preferred(states) = {} THEN issueOp.nextState = NoState
          ELSE issueOp.nextState = states[First(lowest)]
       /\ DistinctPositions(states) =>
            \A o \in Orders(states) : getFirstActiveState(o) = issueOp.nextState

\* a state of type started is chosen although a state that only its name marks
\* as active has a lower position and was given first
C16_Witness ==
  /\ issueOp.kind = "resolve"
  /\ DistinctPositions(issueOp.states)
  /\ \E i, j \in 1..Len(issueOp.states) :
       /\ i < j
       /\ issueOp.nextState = issueOp.states[j]
       /\ TypeOf(issueOp.states[j]) = "started"
       /\ NameLooksActive(issueOp.states[i].name)
       /\ TypeOf(issueOp.states[i]) # "started"
       /\ PositionOf(issueOp.states[i]) < PositionOf(issueOp.states[j])

\* C17: findStateByName returns the first state, in list order, whose name
\* equals the trimmed name ignoring case, and no state when there is none or
\* when the name is empty after trimming.
C17_FirstStateOfThatName ==
  issueOp.kind = "resolve" =>
    LET name == Trim(issueOp.stateName)
        hits == {i \in 1..Len(issueOp.states) :
                   ToLower(issueOp.states[i].name) = ToLower(name)}
    IN IF name = "" \/ hits = {} THEN issueOp.target = NoState
       ELSE \E i \in hits :
              /\ issueOp.target = issueOp.states[i]
              /\ \A j \in hits : i <= j

\* two states carry the name, in different case: the one given first is found
\* although the other is written exactly as the name that was asked for
C17_Witness ==
  /\ issueOp.kind = "resolve"
  /\ issueOp.stateName = " In Progress "
  /\ Len(issueOp.states) >= 2
  /\ issueOp.states[1].name = "in progress"
  /\ \E j \in 2..Len(issueOp.states) : issueOp.states[j].name = "In Progress"
  /\ issueOp.target = issueOp.states[1]

OpsTypeOK ==
  /\ issueOp.pc \in {"idle", "getIssue", "getStates", "findUser", "updateIssue",
                     "createComment", "done", "failed"}
  /\ issueOp.n \in 0..MaxOps

\* the operation has ended, and not because a call on the tracker failed
Ended(kind) ==
  /\ issueOp.kind = kind
  /\ issueOp.pc \in {"done", "failed"}
  /\ issueOp.error # RemoteFailure

\* the calls of the operation that update an issue
OpUpdates == SelectSeq(issueOp.calls, LAMBDA c : c.op = "updateIssue")

\* the key of the operation names an issue, and the issue belongs to a team
KeyNamesIssue == getIssueByKey(remoteIssues, issueOp.issueKey) # 0

IssueHasTeam ==
  /\ KeyNamesIssue
  /\ Truthy(remoteIssues[getIssueByKey(remoteIssues, issueOp.issueKey)].teamId)

\* one update of the issue to the state, or none when it was in that state
MovedTo(state) ==
  /\ issueOp.pc = "done"
  /\ IF issueOp.issue.stateId # state.id
     THEN OpUpdates = <<OpCall("updateIssue", issueOp.issue.id, state.id)>>
     ELSE OpUpdates = <<>>
  /\ remoteIssues[issueOp.issue.id].stateId = state.id
  /\ issueOp.result.previousState = getStateNameById(remoteStates, issueOp.issue.stateId)
  /\ issueOp.result.newState = state.name
  /\ issueOp.issue.stateId = state.id =>
       issueOp.result.previousState = issueOp.result.newState

\* C15: a move of an issue that has a team to a state the workflow has issues
\* exactly one updateIssue, with the id of the target state, when the issue is
\* in another state, and none when it is in the target state; either way it
\* succeeds and returns the name of the previous state and the name of the
\* target state as the workflow writes it, which are equal when nothing moved.
C15_MoveUpdatesOnlyOnChange ==
  ( /\ Ended("move")
    /\ IssueHasTeam
    /\ findStateByName(remoteStates, issueOp.stateName) # NoState )
  => MovedTo(findStateByName(remoteStates, issueOp.stateName))

\* a move that finds the issue in the target state, where an earlier operation
\* had put it, and updates nothing
C15_Witness ==
  /\ Ended("move")
  /\ issueOp.n = 2
  /\ issueOp.pc = "done"
  /\ OpUpdates = <<>>
  /\ issueOp.issue.stateId # OpIssues[issueOp.issue.id].stateId
  /\ issueOp.stateName = " In Progress "
  /\ issueOp.result.previousState = "In Progress"
  /\ issueOp.result.newState = "In Progress"

\* C18: start of an issue that has a team whose workflow has a first active
\* state issues one updateIssue with the id of that state when the issue is in
\* another state and none when it is there, and returns the names of the
\* previous and of the new state; when the issue has no team, or the workflow
\* has no first active state, it fails and issues no update.
C18_StartMovesToFirstActive ==
  (Ended("start") /\ KeyNamesIssue) =>
    IF IssueHasTeam /\ Preferred(remoteStates) # {}
    THEN \E state \in Preferred(remoteStates) :
           /\ LowestPosition(remoteStates, state)
           /\ MovedTo(state)
    ELSE /\ issueOp.pc = "failed"
         /\ OpUpdates = <<>>
         /\ remoteIssues[issueOp.issue.id] = issueOp.issue

\* start moved an issue to a started state that the workflow does not list first
C18_Witness ==
  /\ Ended("start")
  /\ issueOp.pc = "done"
  /\ Len(OpUpdates) = 1
  /\ remoteStates = TeamStates
  /\ issueOp.result.previousState = "Todo"
  /\ issueOp.result.newState = "In Progress"
  /\ remoteIssues[issueOp.issue.id].stateId = "s2"

\* C19: assign updates the assignee of the issue to the id of the user the
\* identifier resolves to and returns the label of that user; when no issue has
\* the key, when the identifier is empty after trimming, or when no user
\* matches it, assign fails and issues no updateIssue.
C19_AssignResolvesUserFirst ==
  Ended("assign") =>
    LET identifier == Trim(issueOp.userIdentifier)
        user == findUserByIdentifier(identifier)
    IN IF KeyNamesIssue /\ identifier # "" /\ user # NoUser
       THEN /\ issueOp.pc = "done"
            /\ OpUpdates = <<OpCall("updateIssue", issueOp.issue.id, user)>>
            /\ remoteIssues[issueOp.issue.id].assigneeId = user
            /\ issueOp.result.assignee = resolveUserLabel(UserById(user))
       ELSE /\ issueOp.pc = "failed"
            /\ OpUpdates = <<>>
            /\ KeyNamesIssue => remoteIssues[issueOp.issue.id] = issueOp.issue
            /\ (KeyNamesIssue /\ identifier # "") => issueOp.error = "User not found"

\* an issue is assigned to the user whose name is the identifier in another
\* case; the label is the name, because the display name is blank
C19_Witness ==
  /\ Ended("assign")
  /\ issueOp.pc = "done"
  /\ issueOp.userIdentifier = "bo"
  /\ issueOp.result.assignee = "Bo"
  /\ remoteIssues[issueOp.issue.id].assigneeId = "u3"
  /\ issueOp.issue.assigneeId # "u3"

\* no identifier resolves to a user: assign failed and the issue is as it was
AssignToNobody ==
  /\ Ended("assign")
  /\ issueOp.userIdentifier = "Ghost"
  /\ issueOp.error = "User not found"

\* the calls of the operation that create a comment
OpComments == SelectSeq(issueOp.calls, LAMBDA c : c.op = "createComment")

\* C20: comment validates the text before it resolves the issue: with a text
\* that is empty after trimming it fails with the error of the text validation,
\* has made no call on the tracker and has created no comment, whether or not
\* the key names an issue; with a text that is not empty and a key that names
\* an issue it creates exactly one comment, whose body is the trimmed text.
C20_TextValidatedFirst ==
  Ended("comment") =>
    IF Trim(issueOp.text) = ""
    THEN /\ issueOp.pc = "failed"
         /\ issueOp.error = "Comment text is required."
         /\ issueOp.calls = <<>>
    ELSE KeyNamesIssue =>
           /\ issueOp.pc = "done"
           /\ OpComments =
                <<OpCall("createComment", issueOp.issue.id, Trim(issueOp.text))>>
           /\ remoteComments # <<>>
           /\ remoteComments[Len(remoteComments)] =
                [issueId |-> issueOp.issue.id, body |-> Trim(issueOp.text)]

\* what the code does: the issue is resolved first, so a blank text costs a
\* lookup when the key is not blank, and the error names the issue when no
\* issue has the key
CommentResolvesIssueFirst ==
  Ended("comment") =>
    /\ OpComments # <<>> <=> (KeyNamesIssue /\ Trim(issueOp.text) # "")
    /\ Trim(issueOp.issueKey) # "" =>
         /\ issueOp.calls # <<>>
         /\ issueOp.calls[1].op = "getIssueByKey"
    /\ (Trim(issueOp.issueKey) # "" /\ ~KeyNamesIssue) => issueOp.error = "Issue not found"
    /\ (KeyNamesIssue /\ Trim(issueOp.text) = "") =>
         issueOp.error = "Comment text is required."

\* a blank comment on a key that names no issue
BlankCommentOnUnknownKey ==
  /\ Ended("comment")
  /\ Trim(issueOp.text) = ""
  /\ issueOp.issueKey = "COG-9"
  /\ issueOp.error = "Issue not found"
  /\ Len(issueOp.calls) = 1

\* ------------------------------------------------- assignee synchronisation
\* the calls of a step that carry an assignee for an existing issue, and the
\* records of a step about an assignee
AssigneeUpdates(l, l2) ==
  {c \in NewCalls(l, l2) : c.op = "updateIssue" /\ "assigneeId" \in c.fields}

AssigneeRecords(l, l2) == {a \in NewRecords(l, l2) : a.reason \in AssigneeReasons}

\* the step in which the engine has found the entity's issue and syncs its
\* assignee
SyncsAssignee(l, l2) ==
  /\ l.pc = "reconcile"
  /\ l2.pc # "aborted"
  /\ MatchedIssue(l, spec) # 0

\* C25: for an existing issue whose spec entity sets an assignee, the engine
\* sends one update that sets the assignee to the resolved desired id and adds
\* the record Updated 'assignee set from spec' exactly when the issue's current
\* assignee differs from that id; when the two are equal it sends no assignee
\* update and adds no record about an assignee.
C25_AssigneeForcedOnlyOnChange ==
  [][\A p \in Procs :
       LET l == loc[p]
           l2 == loc'[p]
           id == MatchedIssue(l, spec)
           entity == EntitySpec(spec, l.e, l.s)
           current == getIssueAssigneeId(remoteIssues[id])
       IN (SyncsAssignee(l, l2) /\ Truthy(entity.assignee)) =>
            IF current # l.desiredAssigneeId
            THEN /\ \E c \in AssigneeUpdates(l, l2) :
                      /\ AssigneeUpdates(l, l2) = {c}
                      /\ c.id = id
                      /\ c.in.assigneeId = l.desiredAssigneeId
                 /\ AssigneeRecords(l, l2) =
                      {Action("Updated", EntityKind(l.s), entity.title,
                              "assignee set from spec")}
                 /\ getIssueAssigneeId(remoteIssues'[id]) = l.desiredAssigneeId
            ELSE /\ AssigneeUpdates(l, l2) = {}
                 /\ AssigneeRecords(l, l2) = {}
                 /\ remoteIssues' = remoteIssues]_vars

\* the engine has replaced the assignee of an issue that was assigned to
\* another user by the user the spec names, and has recorded it
C25_Witness ==
  \E p \in Procs :
    LET l == loc[p] IN
    /\ l.pc = "describe"
    /\ EntitySpec(spec, l.e, l.s).assignee = "atul"
    /\ l.snap[l.issues[l.issue].id].assigneeId = "u9"
    /\ remoteIssues[l.issues[l.issue].id].assigneeId = "u2"
    /\ l.report[Len(l.report)].reason = "assignee set from spec"

\* C26: for an existing issue that has no assignee and whose spec entity sets
\* none, the engine sends one update that assigns the issue to the current
\* user and adds the record Updated 'Assigned issue to current user'; a later
\* run, with nothing changed in between, adds no such record for that issue.
C26_UnassignedGoesToCurrentUser ==
  [][\A p \in Procs :
       LET l == loc[p]
           l2 == loc'[p]
           id == MatchedIssue(l, spec)
           entity == EntitySpec(spec, l.e, l.s)
       IN /\ (SyncsAssignee(l, l2) /\ ~Truthy(entity.assignee)
              /\ getIssueAssigneeId(remoteIssues[id]) = NoUser) =>
               /\ \E c \in AssigneeUpdates(l, l2) :
                    /\ AssigneeUpdates(l, l2) = {c}
                    /\ c.id = id
                    /\ c.in.assigneeId = Viewer
               /\ AssigneeRecords(l, l2) =
                    {Action("Updated", EntityKind(l.s), entity.title,
                            "Assigned issue to current user")}
               /\ getIssueAssigneeId(remoteIssues'[id]) = Viewer
          /\ SecondRun(l2) =>
               \A k \in 1..Len(l2.report) :
                  l2.report[k].reason # "Assigned issue to current user"]_vars

\* a second run has ended, after a first run that found an epic's issue
\* without an assignee, for a spec that names none, and gave it to the current
\* user
C26_Witness ==
  \E p \in Procs :
    LET l == loc[p] IN
    /\ l.pc = "done"
    /\ SecondRun(l)
    /\ \E id \in 1..Len(l.snap0), e \in 1..Len(spec.epics) :
         /\ l.snap0[id].projectId = l.project
         /\ l.snap0[id].title = spec.epics[e].title
         /\ l.snap0[id].parentId = 0
         /\ spec.epics[e].assignee = NoField
         /\ getIssueAssigneeId(l.snap0[id]) = NoUser
         /\ getIssueAssigneeId(l.snap[id]) = Viewer
         /\ getIssueAssigneeId(remoteIssues[id]) = Viewer

\* ----------------------------------------------------- assignee resolution
\* the call was made for the entity (e, s) or for one the loops reach after it
AtOrAfter(c, e, s) == c.e > e \/ (c.e = e /\ c.s >= s)

OpsOf(calls) == [k \in 1..Len(calls) |-> calls[k].op]

\* C27: a reference that is not blank is looked up as a user first and as an
\* issue key only when no user matches; when it names an issue without an
\* assignee, or neither a user nor an issue, the run fails in that step, before
\* the entity's issue is searched for: no create or update has been or will be
\* sent for that entity or a later one, and what the run wrote for earlier
\* entities stays.  A run that has failed takes no further step: the next step
\* of the invocation is a new run.
C27_UnresolvableReferenceStopsTheRun ==
  [][\A p \in Procs :
       LET l == loc[p]
           l2 == loc'[p]
           ref == EntitySpec(spec, l.e, l.s).assignee
           user == findUserByIdentifier(Trim(ref))
           issue == getIssueByKey(remoteIssues, Trim(ref))
           lookups == OpsOf(Added(l.calls, l2.calls))
       IN /\ (/\ l.pc = "resolveAssignee"
              /\ l2 # l
              /\ aborts' = aborts
              /\ Truthy(ref) /\ Trim(ref) # "") =>
            /\ lookups = IF user # NoUser THEN <<"findUserByIdentifier">>
                         ELSE <<"findUserByIdentifier", "getIssueByKey">>
            /\ IF user = NoUser
                  /\ (issue = 0 \/ getIssueAssigneeId(remoteIssues[issue]) = NoUser)
               THEN /\ l2.pc = "aborted"
                    /\ remoteIssues' = remoteIssues
                    /\ remoteMilestones' = remoteMilestones
                    /\ remoteProjects' = remoteProjects
                    /\ \A k \in 1..Len(l2.calls) :
                         l2.calls[k].op \in MutatingOps =>
                           ~AtOrAfter(l2.calls[k], l.e, l.s)
               ELSE l2.pc = "reconcile"
          /\ (l.pc = "aborted" /\ l2 # l) =>
               l2.run = l.run + 1 /\ l2.calls = <<>> /\ remoteIssues' = remoteIssues]_vars

\* the run created the epic's issue and then failed on the reference of its
\* story, which names nothing: the epic's issue is there, the story's is not
C27_Witness ==
  \E p \in Procs :
    LET l == loc[p] IN
    /\ l.pc = "aborted"
    /\ aborts = 0
    /\ l.e = 1 /\ l.s = 1
    /\ EntitySpec(spec, 1, 1).assignee = "ghost"
    /\ \E k \in 1..Len(l.calls) :
         /\ l.calls[k].op = "createIssue"
         /\ l.calls[k].e = 1 /\ l.calls[k].s = 0
         /\ l.calls[k].id <= Len(remoteIssues)
         /\ remoteIssues[l.calls[k].id].title = spec.epics[1].title
    /\ \A i \in 1..Len(remoteIssues) :
         remoteIssues[i].title # EntitySpec(spec, 1, 1).title

\* ------------------------------------------------- semantic descriptions
\* The semantic description as the managed-description contract defines it: the
\* text without a fenced sentinel block at its start, without one at its end,
\* and without a sentinel line at its start, whitespace around it trimmed.
WithoutFenceAtStart(d) ==
  IF FencedBlock(d, 1) > 0 THEN TrimText(SubSeq(d, FencedBlock(d, 1) + 1, Len(d)))
  ELSE d

WithoutFenceAtEnd(d) ==
  LET ps == {p \in 1..Len(d) : LineStart(d, p) /\ FencedBlock(d, p) = Len(d)} IN
  IF ps = {} THEN d
  ELSE TrimText(SubSeq(d, 1, (CHOOSE p \in ps : TRUE) - 1))

WithoutLineAtStart(d) ==
  IF d # <<>> /\ IsMeta(d[1]) THEN TrimText(SubSeq(d, 2, Len(d))) ELSE d

SemanticDescription(d) ==
  WithoutLineAtStart(WithoutFenceAtEnd(WithoutFenceAtStart(TrimText(d))))

\* the canonical form of a body: the sentinel line, a blank line, the body
Canonical(body) ==
  IF SemanticDescription(body) = <<>> THEN MANAGED_METADATA_LINE
  ELSE MANAGED_METADATA_LINE \o <<"NL", "NL">> \o SemanticDescription(body)

\* C28: the engine compares semantic descriptions.  When the stored
\* description of an existing issue, with a leading sentinel line or a fenced
\* sentinel block at its start or end stripped, equals the spec body, the step
\* records Skipped 'description unchanged' and sends no update; for any other
\* stored description it writes the canonical form, records Updated
\* 'description synchronized', and the same comparison then finds the two equal.
C28_SemanticComparison ==
  [][\A p \in Procs :
       LET l == loc[p]
           l2 == loc'[p]
           entity == EntitySpec(spec, l.e, l.s)
           id == MatchedIssue(l, spec)
           stored == remoteIssues[id].description
           writes == {c \in NewCalls(l, l2) : c.op = "updateIssue"}
       IN (l.pc = "describe" /\ l2 # l /\ l2.pc # "aborted") =>
            IF SemanticDescription(stored) = SemanticDescription(entity.description)
            THEN /\ writes = {}
                 /\ remoteIssues' = remoteIssues
                 /\ Action("Skipped", EntityKind(l.s), entity.title,
                           "description unchanged") \in NewRecords(l, l2)
            ELSE /\ \E c \in writes :
                      /\ writes = {c}
                      /\ c.id = id
                      /\ c.fields = {"description"}
                      /\ c.in.description = Canonical(entity.description)
                 /\ remoteIssues'[id].description = Canonical(entity.description)
                 /\ Action("Updated", EntityKind(l.s), entity.title,
                           "description synchronized") \in NewRecords(l, l2)
                 /\ SemanticDescription(remoteIssues'[id].description)
                      = SemanticDescription(entity.description)]_vars

\* ------------------------------------------------ milestone verification
\* the calls that look up, create or update an epic or a story
IssueOps ==
  {"getIssuesByProject", "createIssue", "updateIssue", "findUserByIdentifier",
   "getIssueByKey"}

\* the run has failed in ensureMilestones: it has touched no issue, and the
\* tracker keeps the project and the milestones as the run left them
FailedBeforeIssues(l2) ==
  /\ l2.pc = "aborted"
  /\ \A k \in 1..Len(l2.calls) : l2.calls[k].op \notin IssueOps
  /\ l2.issues = <<>>
  /\ remoteProjects' = remoteProjects
  /\ remoteMilestones' = remoteMilestones
  /\ remoteIssues' = remoteIssues
  /\ remoteIssues' = l2.snap

\* C29: after the loop that creates milestones the engine fetches the
\* project's milestones again; if a desired name is still missing, or if the
\* project's milestones cannot be queried while some are desired, the run
\* fails there: no epic or story has been looked up, created or updated, and
\* the project as the run wrote it and the milestones it created stay in the
\* tracker.  If every desired name resolves, the run goes on.
C29_MissingMilestoneFailsTheRun ==
  [][\A p \in Procs :
       LET l == loc[p]
           l2 == loc'[p]
           desired == {l.desired[i] : i \in 1..Len(l.desired)}
           missing == desired \ MilestoneNames(remoteMilestones, l.project)
       IN /\ (l.pc = "verifyMilestones" /\ l2 # l /\ aborts' = aborts) =>
               /\ Added(l.calls, l2.calls) =
                    <<Call("projectMilestones", l.project, {}, NoInput, l.e, l.s)>>
               /\ IF missing # {} THEN FailedBeforeIssues(l2)
                  ELSE l2.pc = (IF Len(spec.epics) = 0 THEN "done" ELSE "fetchIssues")
          /\ (/\ l.pc = "fetchMilestones" /\ l2 # l /\ aborts' = aborts
              /\ ~remoteProjects[l.project].milestoneQuery) =>
               /\ collectDesiredMilestoneNames(spec) # <<>>
               /\ FailedBeforeIssues(l2)]_vars

\* a run created the project and one of two desired milestones, the tracker
\* did not make the other, and the run failed at the second fetch, before the
\* epics of the spec
C29_Witness ==
  \E p \in Procs :
    LET l == loc[p] IN
    /\ l.pc = "aborted"
    /\ aborts = 0
    /\ Len(spec.epics) > 0
    /\ Len(l.desired) = 2
    /\ l.calls[Len(l.calls)].op = "projectMilestones"
    /\ \E k \in 1..Len(l.calls) : l.calls[k].op = "createProject"
    /\ Len(remoteProjects) > Len(l.snapProjects)
    /\ Len(remoteMilestones) = Len(l.snapMilestones) + 1
    /\ Cardinality({k \in 1..Len(l.calls) : l.calls[k].op = "createMilestone"}) = 2
    /\ remoteIssues = l.snap

\* ------------------------------------------------- attachment, soft failure
\* the milestones of the project at hand that carry the name the run resolved
\* for the entity at hand
MilestonesFound(l) ==
  {i \in ProjectMilestoneIds(remoteMilestones, l.project) :
     remoteMilestones[i].name = Trim(l.milestoneName)}

\* C30: when, at attachment time, the project has no milestone of the name
\* resolved for the epic or story, the attachment does nothing and says
\* nothing: the step sends no update, adds no record, does not fail the run,
\* and the run goes on with the next story or epic, or ends when there is none.
C30_MissingMilestoneIsSilent ==
  [][\A p \in Procs :
       LET l == loc[p]
           l2 == loc'[p]
           next == NextEntity(spec, l.e, l.s)
       IN (/\ l.pc = "attach" /\ l2 # l /\ aborts' = aborts
           /\ MilestonesFound(l) = {}) =>
            /\ \A c \in NewCalls(l, l2) : c.op \notin MutatingOps
            /\ l2.report = l.report
            /\ remoteIssues' = remoteIssues
            /\ l2.pc # "aborted"
            /\ IF next = <<0, 0>> THEN l2.pc = "done"
               ELSE l2.pc = "resolveAssignee" /\ <<l2.e, l2.s>> = next]_vars

\* a run has ended whose epic resolved a milestone that was renamed before the
\* attachment: the report says nothing about a milestone for the epic, and the
\* story after it was reconciled
C30_Witness ==
  \E p \in Procs :
    LET l == loc[p] IN
    /\ l.pc = "done"
    /\ aborts = 0
    /\ Len(spec.epics) >= 1
    /\ Truthy(resolveEpicMilestoneName(spec, spec.epics[1]))
    /\ Len(spec.epics[1].stories) = 1
    /\ \A k \in 1..Len(l.report) :
         l.report[k].entity = "epic" => l.report[k].reason # "milestone assigned"
    /\ \E k \in 1..Len(l.report) : l.report[k].entity = "story"
    /\ \A k \in 1..Len(l.calls) :
         l.calls[k].op = "updateIssue" => "projectMilestoneId" \notin l.calls[k].fields

\* ------------------------------------------------------- the HTTP surface
\* process.env.EXEC_SECRET: not set, set to the empty string, or set
Secrets == {NoField, "", "s1"}

\* the x-exec-secret header of a request: absent, empty, the secret, another
Headers == {NoField, "", "s1", "s2"}

Methods == {"GET", "POST"}

Paths ==
  {"/health", "/debug/env", "/status/ENG-1", "/move", "/assign", "/start",
   "/comment", "/sync", "/list", "/nope"}

\* the pattern of the registered route a path matches, the path itself when
\* it has no parameter
RoutePattern(path) == IF path = "/status/ENG-1" THEN "/status/:id" ELSE path

\* the routes of the app and the core operation each handler calls ("none" for
\* the two handlers that call none)
Routes ==
  { [method |-> "GET",  path |-> "/health",     core |-> "none"],
    [method |-> "GET",  path |-> "/debug/env",  core |-> "none"],
    [method |-> "GET",  path |-> "/status/:id", core |-> "getIssueStatus"],
    [method |-> "POST", path |-> "/move",       core |-> "moveIssue"],
    [method |-> "POST", path |-> "/assign",     core |-> "assignIssue"],
    [method |-> "POST", path |-> "/start",      core |-> "startIssue"],
    [method |-> "POST", path |-> "/comment",    core |-> "commentIssue"],
    [method |-> "POST", path |-> "/sync",       core |-> "syncSpec"],
    [method |-> "GET",  path |-> "/list",       core |-> "listProjectIssues"] }

MatchingRoutes(method, path) ==
  {r \in Routes : r.method = method /\ r.path = RoutePattern(path)}

NoStatus == 0

\* a request on its way through the middleware chain: handler is the route
\* handler that ran, invoked the core operation it called, input whether the
\* handler could read what it needs (a JSON body, the project query parameter)
Request(pc, secret, method, path, header, input) ==
  [pc |-> pc, EXEC_SECRET |-> secret, method |-> method, path |-> path,
   header |-> header, input |-> input, status |-> NoStatus,
   handler |-> "none", invoked |-> "none", logged |-> FALSE]

Respond(r, status) == [r EXCEPT !.status = status, !.pc = "loggerAfter"]

\* an auth check that only compares a header that was sent
authMiddlewareWhenSent(r) ==
  IF ~Truthy(r.EXEC_SECRET) THEN Respond(r, 500)
  ELSE IF Truthy(r.header) /\ r.header # r.EXEC_SECRET THEN Respond(r, 401)
  ELSE [r EXCEPT !.pc = "route"]

authMiddleware(r) ==
  IF ~Truthy(r.EXEC_SECRET) THEN Respond(r, 500)
  ELSE IF ~Truthy(r.header) \/ r.header # r.EXEC_SECRET THEN Respond(r, 401)
  ELSE [r EXCEPT !.pc = "route"]

HttpUnchanged ==
  UNCHANGED <<spec, remoteProjects, remoteMilestones, remoteIssues, loc, aborts,
              remoteStates, remoteComments>>

\* a request arrives; the environment of the process does not change
Receive ==
  /\ issueOp.pc = "idle"
  /\ \E method \in Methods, path \in Paths, header \in Headers, input \in BOOLEAN :
       issueOp' = Request("loggerMiddleware", issueOp.EXEC_SECRET, method, path,
                          header, input)
  /\ HttpUnchanged

\* loggerMiddleware up to its await next()
LoggerBefore ==
  /\ issueOp.pc = "loggerMiddleware"
  /\ issueOp' = [issueOp EXCEPT !.pc = "gate"]
  /\ HttpUnchanged

\* the second middleware of the app: the two open paths go straight on
Gate ==
  /\ issueOp.pc = "gate"
  /\ issueOp' = IF issueOp.path = "/health" \/ issueOp.path = "/debug/env"
                THEN [issueOp EXCEPT !.pc = "route"]
                ELSE [issueOp EXCEPT !.pc = "authMiddleware"]
  /\ HttpUnchanged

AuthMiddleware ==
  /\ issueOp.pc = "authMiddleware"
  /\ issueOp' = authMiddleware(issueOp)
  /\ HttpUnchanged

\* the router: the handler of the matching route, or notFound. A handler that
\* cannot read its input answers 400 without calling the core; the core
\* operation succeeds (200) or throws (400)
Route ==
  /\ issueOp.pc = "route"
  /\ LET found == MatchingRoutes(issueOp.method, issueOp.path) IN
     IF found = {} THEN issueOp' = Respond(issueOp, 404)
     ELSE LET route == CHOOSE r \in found : TRUE
              ran == [issueOp EXCEPT !.handler = route.path]
          IN IF route.core = "none" THEN issueOp' = Respond(ran, 200)
             ELSE IF route.path # "/status/:id" /\ ~issueOp.input
               THEN issueOp' = Respond(ran, 400)
             ELSE \E ok \in BOOLEAN :
                    issueOp' = Respond([ran EXCEPT !.invoked = route.core],
                                       IF ok THEN 200 ELSE 400)
  /\ HttpUnchanged

\* loggerMiddleware after its await next(): the line is logged, the response
\* goes out
LoggerAfter ==
  /\ issueOp.pc = "loggerAfter"
  /\ issueOp' = [issueOp EXCEPT !.pc = "idle", !.logged = TRUE]
  /\ HttpUnchanged

HttpInit ==
  /\ spec = BodySpec(<<"a">>)
  /\ remoteProjects = BodyRemote.projects
  /\ remoteMilestones = BodyRemote.milestones
  /\ remoteIssues = BodyRemote.issues
  /\ loc = [p \in Procs |-> InitLoc]
  /\ aborts = 0
  /\ remoteStates = TeamStates
  /\ remoteComments = <<>>
  /\ \E secret \in Secrets :
       issueOp = Request("idle", secret, "GET", "/health", NoField, FALSE)

HttpNext ==
  \/ Receive
  \/ LoggerBefore
  \/ Gate
  \/ AuthMiddleware
  \/ Route
  \/ LoggerAfter

HttpSpec == HttpInit /\ [][HttpNext]_vars

\* the request at hand is for a route of the app other than the two open ones
GuardedRoute ==
  \E r \in MatchingRoutes(issueOp.method, issueOp.path) :
    ~(r.method = "GET" /\ r.path \in {"/health", "/debug/env"})

SecretMatches ==
  Truthy(issueOp.EXEC_SECRET) /\ issueOp.header = issueOp.EXEC_SECRET

Answered == issueOp.pc \in {"loggerAfter", "idle"} /\ issueOp.status # NoStatus

\* C24: on the HTTP surface, for a request to any route other than GET /health
\* and GET /debug/env, the route handler runs, and a core operation is called,
\* only when the x-exec-secret header equals the configured EXEC_SECRET; with
\* EXEC_SECRET not set the answer is 500, with EXEC_SECRET set and the header
\* missing or different it is 401, and in both cases no handler ran and no
\* operation was called.
C24_GuardedRoutesNeedTheSecret ==
  /\ issueOp.invoked # "none" => SecretMatches
  /\ GuardedRoute =>
       /\ issueOp.handler # "none" => SecretMatches
       /\ (Answered /\ ~Truthy(issueOp.EXEC_SECRET)) =>
            issueOp.status = 500 /\ issueOp.handler = "none" /\ issueOp.invoked = "none"
       /\ (Answered /\ Truthy(issueOp.EXEC_SECRET) /\ ~SecretMatches) =>
            issueOp.status = 401 /\ issueOp.handler = "none" /\ issueOp.invoked = "none"

\* a request to POST /move without the header was answered 401
C24_Witness ==
  /\ Answered
  /\ issueOp.method = "POST" /\ issueOp.path = "/move"
  /\ issueOp.EXEC_SECRET = "s1" /\ issueOp.header = NoField
  /\ issueOp.status = 401 /\ issueOp.invoked = "none"

\* --------------------------------------------------------- project operations
\* The operations of src/linear/project.ts.  Strings that are compared are
\* sequences of UTF-16 code units.
CodeUnits(s) ==
  CASE s = "Alpha" -> <<65, 108, 112, 104, 97>>
    [] s = "alpha" -> <<97, 108, 112, 104, 97>>
    [] s = "Zeta" -> <<90, 101, 116, 97>>
    [] s = "Engine" -> <<69, 110, 103, 105, 110, 101>>
    [] s = "Sun" -> <<83, 117, 110>>
    [] s = "Mon" -> <<77, 111, 110>>
    [] s = "Fri" -> <<70, 114, 105>>
    [] OTHER -> <<>>

\* -1, 0 or 1 as sequence a comes before, is equal to, or comes after sequence
\* b, position by position
RECURSIVE CompareSeq(_, _)
CompareSeq(a, b) ==
  IF a = <<>> /\ b = <<>> THEN 0
  ELSE IF a = <<>> THEN -1
  ELSE IF b = <<>> THEN 1
  ELSE IF Head(a) < Head(b) THEN -1
  ELSE IF Head(a) > Head(b) THEN 1
  ELSE CompareSeq(Tail(a), Tail(b))

IsUpper(c) == c >= 65 /\ c <= 90

\* the collation of the runtime: the locale-sensitive order of a build with
\* internationalisation (letters compared without case first, and lower case
\* before upper case among otherwise equal strings), or the code-unit order
\* of a build without it
Collations == {"icu", "ordinal"}

PrimaryKey(a) == [k \in 1..Len(a) |-> IF IsUpper(a[k]) THEN a[k] + 32 ELSE a[k]]

TertiaryKey(a) == [k \in 1..Len(a) |-> IF IsUpper(a[k]) THEN 1 ELSE 0]

\* String.prototype.localeCompare(b) on a, under the runtime's collation
localeCompare(a, b, collation) ==
  IF collation = "ordinal" THEN CompareSeq(a, b)
  ELSE IF CompareSeq(PrimaryKey(a), PrimaryKey(b)) # 0
    THEN CompareSeq(PrimaryKey(a), PrimaryKey(b))
  ELSE CompareSeq(TertiaryKey(a), TertiaryKey(b))

\* an id as a string: ids are single digits
IdText(id) == <<48 + id>>

\* createdAt of an issue: a day of November 2026, held as an ISO string or as
\* a Date
DateKinds == {"string", "Date"}

Days == {1, 2, 6}

Weekday(day) == CASE day = 1 -> "Sun" [] day = 2 -> "Mon" [] day = 6 -> "Fri"

\* String(createdAt), the part of it that differs between two days of the
\* month: "0d" of "2026-11-0dT00:00:00.000Z" for a string, "Www Nov 0d" of
\* "Www Nov 0d 2026 00:00:00 GMT+0000 (...)" for a Date
StringOf(createdAt) ==
  IF createdAt.kind = "string" THEN <<48, 48 + createdAt.day>>
  ELSE CodeUnits(Weekday(createdAt.day)) \o <<32, 48, 48 + createdAt.day>>

\* one record of the list listProjectIssues returns
ListedProjectIssue(issue) ==
  [id |-> issue.id, identifier |-> issue.identifier, title |-> issue.title,
   createdAt |-> StringOf(issue.createdAt), assignee |-> issue.assignee]

\* the comparator of listProjectIssues
compareIssues(a, b, collation) ==
  IF a.createdAt # b.createdAt THEN localeCompare(a.createdAt, b.createdAt, collation)
  ELSE localeCompare(IdText(a.id), IdText(b.id), collation)

\* a comparator that orders names by their code units whatever the runtime
compareProjectsOrdinal(a, b, collation) ==
  IF a.name # b.name THEN CompareSeq(CodeUnits(a.name), CodeUnits(b.name))
  ELSE CompareSeq(IdText(a.id), IdText(b.id))

\* a comparator that looks at the names alone
compareProjectsByName(a, b, collation) ==
  localeCompare(CodeUnits(a.name), CodeUnits(b.name), collation)

\* the comparator of listProjects
compareProjects(a, b, collation) ==
  IF a.name # b.name THEN localeCompare(CodeUnits(a.name), CodeUnits(b.name), collation)
  ELSE localeCompare(IdText(a.id), IdText(b.id), collation)

\* Array.prototype.sort (stable) with each comparator: x goes in after the
\* last element it does not come before
RECURSIVE InsertIssue(_, _, _)
InsertIssue(sorted, x, collation) ==
  IF sorted = <<>> THEN <<x>>
  ELSE IF compareIssues(x, Head(sorted), collation) < 0 THEN <<x>> \o sorted
  ELSE <<Head(sorted)>> \o InsertIssue(Tail(sorted), x, collation)

RECURSIVE SortIssues(_, _)
SortIssues(list, collation) ==
  IF list = <<>> THEN <<>>
  ELSE InsertIssue(SortIssues(SubSeq(list, 1, Len(list) - 1), collation),
                   list[Len(list)], collation)

RECURSIVE InsertProject(_, _, _)
InsertProject(sorted, x, collation) ==
  IF sorted = <<>> THEN <<x>>
  ELSE IF compareProjects(x, Head(sorted), collation) < 0 THEN <<x>> \o sorted
  ELSE <<Head(sorted)>> \o InsertProject(Tail(sorted), x, collation)

RECURSIVE SortProjects(_, _)
SortProjects(list, collation) ==
  IF list = <<>> THEN <<>>
  ELSE InsertProject(SortProjects(SubSeq(list, 1, Len(list) - 1), collation),
                     list[Len(list)], collation)

\* one record of the list listProjects returns
ListedProject(id, project) == [id |-> id, name |-> project.name]

\* client.getProjects() as listProjects reads it: every project with its id
ProjectNodes(remote) == [i \in 1..Len(remote) |-> ListedProject(i, remote[i])]

NoCounts == [totalIssues |-> 0, assignedCount |-> 0, skippedCount |-> 0]

\* The operation that is running: kind and its input, pc the await it has
\* reached, project the id getProjectByName returned, issues the list
\* getIssuesByProject returned, i the index of the issue the loop of
\* assignProjectIssues is at, the two counters, counts and listed what it
\* returned, error the message it threw, calls the log of its calls
InitProjectOp(collation) ==
  [pc |-> "idle", n |-> 0, kind |-> "none", projectName |-> "", force |-> FALSE,
   collation |-> collation, project |-> 0, currentUser |-> NoUser,
   issues |-> <<>>, i |-> 0, assignedCount |-> 0, skippedCount |-> 0,
   counts |-> NoCounts, listed |-> <<>>, result |-> NoResult, error |-> "",
   calls |-> <<>>]

ProjectOpKinds == {"assignProjectIssues", "listProjectIssues", "listProjects"}

ProjectNames == {"Engine", " engine ", "Nope", "  "}

ProjectOpUnchanged ==
  UNCHANGED <<spec, remoteProjects, remoteMilestones, loc, aborts, remoteStates,
              remoteComments>>

\* an operation is called; a blank project name is refused before any call
InvokeProjectOp ==
  /\ issueOp.pc \in {"idle", "done", "failed"}
  /\ issueOp.n < MaxOps
  /\ \E kind \in ProjectOpKinds :
       \E projectName \in (IF kind = "listProjects" THEN {""} ELSE ProjectNames),
          force \in (IF kind = "assignProjectIssues" THEN BOOLEAN ELSE {FALSE}) :
         LET o == [InitProjectOp(issueOp.collation) EXCEPT
                     !.n = issueOp.n + 1, !.kind = kind,
                     !.projectName = projectName, !.force = force]
         IN issueOp' =
              IF kind = "listProjects" THEN [o EXCEPT !.pc = "getProjects"]
              ELSE IF Trim(projectName) = "" THEN Reject(o, "Project name is required.")
              ELSE [o EXCEPT !.pc = "getProjectByName"]
  /\ UNCHANGED remoteIssues
  /\ ProjectOpUnchanged

\* await client.getProjectByName(projectName)
GetProjectByName ==
  /\ issueOp.pc = "getProjectByName"
  /\ LET project == getProjectByName(remoteProjects, issueOp.projectName)
         o == logOpCall(issueOp, "getProjectByName", 0, issueOp.projectName)
     IN issueOp' =
          IF project = 0 THEN Reject(o, "Project not found")
          ELSE [o EXCEPT !.project = project,
                         !.pc = IF issueOp.kind = "assignProjectIssues"
                                THEN "getCurrentUser" ELSE "getIssuesByProject"]
  /\ UNCHANGED remoteIssues
  /\ ProjectOpUnchanged

\* await client.getCurrentUser()
GetCurrentUser ==
  /\ issueOp.pc = "getCurrentUser"
  /\ issueOp' = [logOpCall(issueOp, "getCurrentUser", 0, "") EXCEPT
                   !.currentUser = Viewer, !.pc = "getIssuesByProject"]
  /\ UNCHANGED remoteIssues
  /\ ProjectOpUnchanged

\* a test that, when forced, still skips the issues the current user has
skipsOwnIssue(o) ==
  /\ getIssueAssigneeId(o.issues[o.i]) # NoUser
  /\ ~o.force \/ getIssueAssigneeId(o.issues[o.i]) = o.currentUser

\* !force && hasAssignee: the issue the loop is at is skipped
skipsIssue(o) == ~o.force /\ getIssueAssigneeId(o.issues[o.i]) # NoUser

\* the loop of assignProjectIssues from issue i up to its next await: issues
\* that are skipped are counted, and the loop stops at the first issue to
\* update or returns when there is none left
RECURSIVE assignLoop(_)
assignLoop(o) ==
  IF o.i > Len(o.issues)
  THEN Return([o EXCEPT !.counts = [totalIssues |-> Len(o.issues),
                                    assignedCount |-> o.assignedCount,
                                    skippedCount |-> o.skippedCount]],
              NoResult)
  ELSE IF skipsIssue(o)
    THEN assignLoop([o EXCEPT !.skippedCount = @ + 1, !.i = @ + 1])
  ELSE [o EXCEPT !.pc = "updateIssue"]

\* await client.getIssuesByProject(project.id): the issues of the project in
\* whatever order the tracker returns them
GetIssuesByProject ==
  /\ issueOp.pc = "getIssuesByProject"
  /\ \E issues \in Orders(getIssuesByProject(remoteIssues, issueOp.project)) :
       LET o == [logOpCall(issueOp, "getIssuesByProject", issueOp.project, "")
                   EXCEPT !.issues = issues, !.i = 1]
       IN issueOp' =
            IF issueOp.kind = "assignProjectIssues" THEN assignLoop(o)
            ELSE IF issues = <<>> THEN Return(o, NoResult)
            ELSE [o EXCEPT !.pc = "getStates"]
  /\ UNCHANGED remoteIssues
  /\ ProjectOpUnchanged

\* await client.updateIssue(issue.id, { assigneeId: currentUser.id }), the
\* count, and the loop up to its next await
UpdateProjectIssue ==
  /\ issueOp.pc = "updateIssue"
  /\ LET id == issueOp.issues[issueOp.i].id
         o == logOpCall(issueOp, "updateIssue", id, issueOp.currentUser)
     IN /\ remoteIssues' =
             [remoteIssues EXCEPT ![id] =
                UpdatedIssue(@, {"assigneeId"},
                             [NoInput EXCEPT !.assigneeId = issueOp.currentUser])]
        /\ issueOp' = assignLoop([o EXCEPT !.assignedCount = @ + 1, !.i = @ + 1])
  /\ ProjectOpUnchanged

\* getStateNameMapsByTeam (one call for the one team of the model), then the
\* mapping and the sort of listProjectIssues
GetStateNameMaps ==
  /\ issueOp.pc = "getStates"
  /\ LET o == logOpCall(issueOp, "getWorkflowStatesByTeam", 0, TeamId)
         mapped == [k \in 1..Len(o.issues) |-> ListedProjectIssue(o.issues[k])]
     IN issueOp' = Return([o EXCEPT !.listed = SortIssues(mapped, o.collation)],
                          NoResult)
  /\ UNCHANGED remoteIssues
  /\ ProjectOpUnchanged

\* listProjects: await client.getProjects(), in whatever order the tracker
\* returns them, then the mapping and the sort
GetProjects ==
  /\ issueOp.pc = "getProjects"
  /\ \E projects \in Orders(ProjectNodes(remoteProjects)) :
       issueOp' = Return([logOpCall(issueOp, "getProjects", 0, "") EXCEPT
                            !.listed = SortProjects(projects, issueOp.collation)],
                         NoResult)
  /\ UNCHANGED remoteIssues
  /\ ProjectOpUnchanged

\* a failure that puts the issues the operation fetched back as they were
ProjectOpFailReverting ==
  /\ issueOp.pc \in {"getProjectByName", "getCurrentUser", "getIssuesByProject",
                     "updateIssue", "getStates", "getProjects"}
  /\ aborts < MaxAborts
  /\ aborts' = aborts + 1
  /\ issueOp' = Reject(issueOp, RemoteFailure)
  /\ remoteIssues' =
       [id \in 1..Len(remoteIssues) |->
          IF \E k \in 1..Len(issueOp.issues) : issueOp.issues[k].id = id
          THEN issueOp.issues[CHOOSE k \in 1..Len(issueOp.issues) :
                                issueOp.issues[k].id = id]
          ELSE remoteIssues[id]]
  /\ UNCHANGED <<spec, remoteProjects, remoteMilestones, loc,
                 remoteStates, remoteComments>>

\* the call the operation is waiting for fails
ProjectOpFail ==
  /\ issueOp.pc \in {"getProjectByName", "getCurrentUser", "getIssuesByProject",
                     "updateIssue", "getStates", "getProjects"}
  /\ aborts < MaxAborts
  /\ aborts' = aborts + 1
  /\ issueOp' = Reject(issueOp, RemoteFailure)
  /\ UNCHANGED <<spec, remoteProjects, remoteMilestones, remoteIssues, loc,
                 remoteStates, remoteComments>>

MaxIssues == 3

\* an issue of the Engine project with its creation time
DatedIssue(id, assigneeId, createdAt) ==
  [id |-> id, identifier |-> IssueKey(id), title |-> "T", description |-> <<>>,
   teamId |-> TeamId, stateId |-> DefaultState, projectId |-> 1,
   projectMilestoneId |-> 0, parentId |-> 0, assigneeId |-> assigneeId,
   assignee |-> assigneeId, createdAt |-> createdAt]

\* the issues of the tracker, up to MaxIssues of them, all of one project:
\* either each assigned to nobody, to somebody else or to the current user, or
\* each created on one of Days, their creation times of one kind
AssignedIssueLists ==
  UNION { { [i \in 1..k |-> DatedIssue(i, f[i], [kind |-> "string", day |-> 1])] :
              f \in [1..k -> {NoUser, "u9", Viewer}] } : k \in 0..MaxIssues }

DatedIssueLists ==
  UNION { { [i \in 1..k |-> DatedIssue(i, NoUser, [kind |-> kind, day |-> f[i]])] :
              f \in [1..k -> Days] } :
          <<k, kind>> \in (1..MaxIssues) \X DateKinds }

ListedNames == {"Alpha", "alpha", "Zeta"}

MaxProjects == 3

\* the projects of the tracker: the Engine project first, then up to
\* MaxProjects more
ProjectLists ==
  UNION { { <<Project("Engine", <<>>, TRUE)>> \o
              [i \in 1..k |-> Project(f[i], <<>>, TRUE)] :
              f \in [1..k -> ListedNames] } : k \in 0..MaxProjects }

ProjectOpsInit ==
  /\ spec = BodySpec(<<"a">>)
  /\ \/ remoteProjects \in ProjectLists /\ remoteIssues = <<>>
     \/ remoteProjects = <<Project("Engine", <<>>, TRUE)>>
        /\ remoteIssues \in AssignedIssueLists \cup DatedIssueLists
  /\ remoteMilestones = <<>>
  /\ loc = [p \in Procs |-> InitLoc]
  /\ aborts = 0
  /\ remoteStates = TeamStates
  /\ remoteComments = <<>>
  /\ \E collation \in Collations : issueOp = InitProjectOp(collation)

ProjectOpsNext ==
  \/ InvokeProjectOp
  \/ GetProjectByName
  \/ GetCurrentUser
  \/ GetIssuesByProject
  \/ UpdateProjectIssue
  \/ GetStateNameMaps
  \/ GetProjects
  \/ ProjectOpFail

ProjectOpsSpec == ProjectOpsInit /\ [][ProjectOpsNext]_vars

ProjectOpsTypeOK == issueOp.n \in 0..MaxOps

\* ------------------------------------------------------ assignProjectIssues
\* the ids the operation at hand has called updateIssue on, in order, and the
\* assignees those calls set
UpdatedIds == SelectSeq(issueOp.calls, LAMBDA c : c.op = "updateIssue")

FetchedIds(unassignedOnly) ==
  {issueOp.issues[k].id : k \in {j \in 1..Len(issueOp.issues) :
     ~unassignedOnly \/ getIssueAssigneeId(issueOp.issues[j]) = NoUser}}

\* C21: when assignProjectIssues returns, totalIssues = assignedCount +
\* skippedCount; assignedCount is the number of updateIssue calls it made, each
\* of which set the assignee to the current user; with force false the issues
\* it updated are exactly the fetched issues without an assignee, with force
\* true they are all the fetched issues and skippedCount is 0.  No call made on
\* the way, by an operation that fails later, updates an issue outside that set.
C21_AssignCounts ==
  issueOp.kind = "assignProjectIssues" =>
    /\ \A k \in 1..Len(UpdatedIds) :
         /\ UpdatedIds[k].arg = Viewer
         /\ UpdatedIds[k].id \in FetchedIds(~issueOp.force)
         /\ getIssueAssigneeId(remoteIssues[UpdatedIds[k].id]) = Viewer
         /\ \A j \in 1..Len(UpdatedIds) : UpdatedIds[j].id = UpdatedIds[k].id => j = k
    /\ issueOp.pc = "done" =>
         /\ issueOp.counts.totalIssues = Len(issueOp.issues)
         /\ issueOp.counts.totalIssues =
              issueOp.counts.assignedCount + issueOp.counts.skippedCount
         /\ issueOp.counts.assignedCount = Len(UpdatedIds)
         /\ {UpdatedIds[k].id : k \in 1..Len(UpdatedIds)} = FetchedIds(~issueOp.force)
         /\ issueOp.force => issueOp.counts.skippedCount = 0

\* a run without force has returned after it updated one issue and skipped two
C21_Witness ==
  /\ issueOp.kind = "assignProjectIssues" /\ issueOp.pc = "done"
  /\ ~issueOp.force
  /\ issueOp.counts = [totalIssues |-> 3, assignedCount |-> 1, skippedCount |-> 2]

\* a forced run has returned after it updated an issue the current user had
ForcedOverOwnIssue ==
  /\ issueOp.kind = "assignProjectIssues" /\ issueOp.pc = "done"
  /\ issueOp.force
  /\ \E k \in 1..Len(issueOp.issues) : issueOp.issues[k].assigneeId = Viewer

\* -------------------------------------------------------- listProjectIssues
Listed(kind) == issueOp.kind = kind /\ issueOp.pc = "done"

\* the day the issue of a listed record was created
CreatedOn(record) == remoteIssues[record.id].createdAt.day

\* the list is a permutation of the fetched issues
ListsEveryIssueOnce ==
  /\ Len(issueOp.listed) = Len(issueOp.issues)
  /\ \A k \in 1..Len(issueOp.issues) :
       Cardinality({j \in 1..Len(issueOp.listed) :
                      issueOp.listed[j].id = issueOp.issues[k].id}) = 1

\* C22: listProjectIssues returns one record per fetched issue, none dropped
\* or duplicated, ordered by creation time ascending and, for equal creation
\* times, by identifier ascending; the order is the same whatever order the
\* tracker returned the issues in.
C22_ListedByCreationTime ==
  Listed("listProjectIssues") =>
    /\ ListsEveryIssueOnce
    /\ \A j, k \in 1..Len(issueOp.listed) :
         j < k =>
           \/ CreatedOn(issueOp.listed[j]) < CreatedOn(issueOp.listed[k])
           \/ /\ CreatedOn(issueOp.listed[j]) = CreatedOn(issueOp.listed[k])
              /\ issueOp.listed[j].id < issueOp.listed[k].id
    /\ issueOp.listed =
         SortIssues([k \in 1..Len(remoteIssues) |-> ListedProjectIssue(remoteIssues[k])],
                    issueOp.collation)

\* what the list is ordered by: the text String(createdAt) gives, then the id
ListedByCreatedAtText ==
  Listed("listProjectIssues") =>
    /\ ListsEveryIssueOnce
    /\ \A j, k \in 1..Len(issueOp.listed) :
         j < k => compareIssues(issueOp.listed[j], issueOp.listed[k],
                                issueOp.collation) < 0
    /\ issueOp.listed =
         SortIssues([k \in 1..Len(remoteIssues) |-> ListedProjectIssue(remoteIssues[k])],
                    issueOp.collation)

\* issues whose creation times are strings are listed oldest first
IsoStringsListedOldestFirst ==
  (\A k \in 1..Len(remoteIssues) : remoteIssues[k].createdAt.kind = "string")
    => C22_ListedByCreationTime

\* three issues created on different days were listed
ListedThreeDays ==
  /\ Listed("listProjectIssues")
  /\ Len(issueOp.listed) = 3
  /\ \A j, k \in 1..3 : j # k => CreatedOn(issueOp.listed[j]) # CreatedOn(issueOp.listed[k])

\* ------------------------------------------------------------- listProjects
ListsEveryProjectOnce ==
  /\ Len(issueOp.listed) = Len(remoteProjects)
  /\ \A i \in 1..Len(remoteProjects) :
       \E k \in 1..Len(issueOp.listed) :
         issueOp.listed[k] = ListedProject(i, remoteProjects[i])

\* C23, as stated: listProjects returns all projects in ascending order of
\* name by code units, so that an upper-case initial sorts before a lower-case
\* one, with projects of the same name in ascending order of id.
C23_ListedByNameOrdinal ==
  Listed("listProjects") =>
    /\ ListsEveryProjectOnce
    /\ \A j, k \in 1..Len(issueOp.listed) :
         j < k => compareProjectsOrdinal(issueOp.listed[j], issueOp.listed[k],
                                         issueOp.collation) < 0

\* C23, amended: listProjects returns all projects in ascending order of name
\* under the comparison of the runtime (localeCompare), with projects of the
\* same name in ascending order of id, whatever order the tracker returned
\* them in.  On a runtime with locale-sensitive collation names compare
\* without regard to case first, so no name that differs from another by more
\* than case is placed by the case of its letters, and "alpha" comes before
\* "Alpha"; only on a runtime without it is the order that of the code units.
C23_ListedByNameLocale ==
  Listed("listProjects") =>
    /\ ListsEveryProjectOnce
    /\ \A j, k \in 1..Len(issueOp.listed) :
         j < k =>
           /\ compareProjects(issueOp.listed[j], issueOp.listed[k],
                              issueOp.collation) < 0
           /\ issueOp.listed[j].name = issueOp.listed[k].name =>
                issueOp.listed[j].id < issueOp.listed[k].id
           /\ issueOp.collation = "icu" =>
                /\ CompareSeq(PrimaryKey(CodeUnits(issueOp.listed[j].name)),
                              PrimaryKey(CodeUnits(issueOp.listed[k].name))) <= 0
                /\ ~(issueOp.listed[j].name = "Alpha" /\ issueOp.listed[k].name = "alpha")
           /\ issueOp.collation = "ordinal" =>
                compareProjectsOrdinal(issueOp.listed[j], issueOp.listed[k],
                                       issueOp.collation) < 0
    /\ issueOp.listed = SortProjects(ProjectNodes(remoteProjects), issueOp.collation)

\* on a runtime with locale-sensitive collation a list came back with "alpha"
\* before "Zeta" and with two projects of one name
C23_Witness ==
  /\ Listed("listProjects")
  /\ issueOp.collation = "icu"
  /\ \E j, k \in 1..Len(issueOp.listed) :
       j < k /\ issueOp.listed[j].name = "alpha" /\ issueOp.listed[k].name = "Zeta"
  /\ \E j, k \in 1..Len(issueOp.listed) :
       j < k /\ issueOp.listed[j].name = issueOp.listed[k].name

\* ------------------------------------------------------ no retry, no rollback
\* the calls of a log that change the tracker
Mutations(calls) == SelectSeq(calls, LAMBDA c : c.op \in MutatingOps)

CountOf(calls, op) == Len(SelectSeq(calls, LAMBDA c : c.op = op))

\* what the mutations of a run have left in the tracker is still there: the
\* projects and issues it created, and for every field of an issue the value
\* of the last update the run sent for it
MutationsRemain(l, P, I) ==
  /\ Len(P) = Len(l.snapProjects) + CountOf(l.calls, "createProject")
  /\ Len(I) = Len(l.snap) + CountOf(l.calls, "createIssue")
  /\ \A k \in 1..Len(l.calls) :
       LET c == l.calls[k] IN
       c.op = "updateIssue" =>
         \A f \in c.fields :
           (\A j \in (k + 1)..Len(l.calls) :
              ~(l.calls[j].op = "updateIssue" /\ l.calls[j].id = c.id
                /\ f \in l.calls[j].fields))
           => I[c.id][f] = c.in[f]

\* C31: within one run a remote operation that fails is not tried again and
\* nothing is undone: the step on which a call fails ends the run, sends no
\* call and leaves the tracker as it is, so that every mutation the run applied
\* before the failure remains; a run that has ended in failure sends no further
\* call, and the tracker changes again only with a new run.
C31_NoRetryNoRollback ==
  [][\A p \in Procs :
       LET l == loc[p]
           l2 == loc'[p]
       IN /\ aborts' # aborts =>
               /\ l2 = [l EXCEPT !.pc = "aborted"]
               /\ remoteProjects' = remoteProjects
               /\ remoteMilestones' = remoteMilestones
               /\ remoteIssues' = remoteIssues
               /\ MutationsRemain(l2, remoteProjects', remoteIssues')
          /\ (l.pc # "aborted" /\ l2.pc = "aborted") =>
               /\ \A c \in NewCalls(l, l2) : c.op \notin MutatingOps
               /\ remoteProjects' = remoteProjects
               /\ remoteMilestones' = remoteMilestones
               /\ remoteIssues' = remoteIssues
               /\ MutationsRemain(l2, remoteProjects', remoteIssues')
          /\ (l.pc = "aborted" /\ l2 # l) =>
               /\ l2.run = l.run + 1 /\ l2.calls = <<>>
               /\ remoteProjects' = remoteProjects
               /\ remoteMilestones' = remoteMilestones
               /\ remoteIssues' = remoteIssues]_vars

\* a run has failed on a call after it created an issue and updated another:
\* both mutations are in the tracker
C31_Witness ==
  \E p \in Procs :
    LET l == loc[p] IN
    /\ l.pc = "aborted"
    /\ aborts > 0
    /\ CountOf(l.calls, "createIssue") >= 1
    /\ CountOf(l.calls, "updateIssue") >= 1
    /\ Len(remoteIssues) > Len(l.snap)
    /\ MutationsRemain(l, remoteProjects, remoteIssues)

\* --------------------------------------------------- two runs, one epic
\* the top-level issues of a project that carry a title
TopLevel(I, projectId, title) ==
  {i \in 1..Len(I) :
     I[i].title = title /\ I[i].parentId = 0 /\ I[i].projectId = projectId}

HasCreated(l, title) ==
  \E k \in 1..Len(l.report) :
    l.report[k] = Action("Created", "epic", title, NoField)

\* C32: nothing keeps two runs apart.  A run decides to create an epic on the
\* list of issues it fetched and on nothing else: when that list has no
\* top-level issue of the title, the step creates one and records Created,
\* whether or not another run has created one in the meantime; so two runs
\* that both list the issues before either creates the epic both create it,
\* and the project ends with two top-level issues of the title.
C32_RunsAreNotSerialised ==
  [][\A p \in Racers :
       LET l == loc[p]
           l2 == loc'[p]
           title == EntitySpec(spec, l.e, l.s).title
       IN (/\ l.pc = "reconcile" /\ l.s = 0 /\ l2 # l /\ aborts' = aborts
           /\ findIssueByTitle(l.issues, title, 0) = 0) =>
            /\ \E c \in NewCalls(l, l2) : c.op = "createIssue" /\ c.in.title = title
            /\ Action("Created", "epic", title, NoField) \in NewRecords(l, l2)
            /\ Cardinality(TopLevel(remoteIssues', l.project, title)) =
                 Cardinality(TopLevel(remoteIssues, l.project, title)) + 1]_vars

\* both runs have finished their first invocation, each reports the epic as
\* Created, and the project holds two top-level issues of its title
C32_Witness ==
  /\ \A p \in Racers :
       /\ loc[p].pc = "done" /\ loc[p].run = 1
       /\ HasCreated(loc[p], "Epic A")
  /\ Cardinality(TopLevel(remoteIssues, 2, "Epic A")) = 2

\* ------------------------------------------------------- sync racing a move
\* the fields an update of an issue by the sync engine may carry
SyncIssueFields == {"description", "assigneeId", "projectMilestoneId"}

\* C33: however a sync run and a move of an issue interleave, once the move
\* has returned the issue is in the move's target state and stays there
\* whatever the run does before or after: the run's updates of an issue carry
\* only its description, its assignee or its milestone, and the tracker changes
\* only the fields an update carries.
C33_MoveSurvivesSync ==
  /\ \A p \in Procs :
       \A k \in 1..Len(loc[p].calls) :
         loc[p].calls[k].op = "updateIssue" =>
           loc[p].calls[k].fields \subseteq SyncIssueFields
  /\ (issueOp.kind = "move" /\ issueOp.pc = "done") =>
       remoteIssues[issueOp.issue.id].stateId = issueOp.target.id

\* the run fetched COG-3 while it was in progress, the move took it to Todo,
\* the run then updated COG-3 and both have finished: the issue is in Todo
C33_Witness ==
  \E p \in Procs :
    LET l == loc[p] IN
    /\ l.pc = "done"
    /\ issueOp.kind = "move" /\ issueOp.pc = "done"
    /\ issueOp.issue.id = 3 /\ issueOp.target.id = "s1"
    /\ \E k \in 1..Len(l.issues) : l.issues[k].id = 3 /\ l.issues[k].stateId = "s2"
    /\ \E k \in 1..Len(l.calls) :
         l.calls[k].op = "updateIssue" /\ l.calls[k].id = 3
         /\ "description" \in l.calls[k].fields
    /\ remoteIssues[3].stateId = "s1"

\* ------------------------------------------------ the in-memory issue list
\* the createIssue calls of a log
Creations(calls) == SelectSeq(calls, LAMBDA c : c.op = "createIssue")

\* the parent an entity is looked up and created under: none for an epic, the
\* issue of its epic for a story
ParentOf(l) == IF l.s = 0 THEN 0 ELSE l.issues[l.epicIssue].id

\* the run at hand has already created an issue of that title under that parent
CreatedEarlier(l, title, parentId) ==
  {k \in 1..Len(l.calls) :
     /\ l.calls[k].op = "createIssue"
     /\ l.calls[k].in.title = title
     /\ l.calls[k].in.parentId = parentId}

\* C34: an issue a run creates is appended to the list of issues the run
\* fetched, and the list is fetched once: a story of an epic the run has just
\* created is created with the new epic's id as parent, and an epic or story
\* whose title the spec repeats is created once, the later occurrence being
\* matched to the issue the run created.
C34_CreatedIssuesJoinTheList ==
  [][\A p \in Procs :
       LET l == loc[p]
           l2 == loc'[p]
           title == EntitySpec(spec, l.e, l.s).title
           created == remoteIssues'[Len(remoteIssues')]
           earlier == CreatedEarlier(l, title, ParentOf(l))
       IN (l.pc = "reconcile" /\ l2 # l /\ aborts' = aborts) =>
            /\ CountOf(l2.calls, "getIssuesByProject") = 1
            /\ Len(Creations(l2.calls)) > Len(Creations(l.calls)) =>
                 /\ l2.issues = Append(l.issues, created)
                 /\ created.title = title /\ created.parentId = ParentOf(l)
                 /\ (l.s = 0 /\ (l2.s # 0 \/ l2.pc = "attach")) =>
                      l2.epicIssue = Len(l2.issues)
                 /\ earlier = {}
            /\ earlier # {} =>
                 /\ Len(Creations(l2.calls)) = Len(Creations(l.calls))
                 /\ \E k \in earlier : l.issues[l2.issue].id = l.calls[k].id]_vars

\* a run has created an epic and a story under it, and has matched a second
\* occurrence of the epic's title to the issue it created: one creation each
C34_Witness ==
  \E p \in Procs :
    LET l == loc[p] IN
    /\ l.pc = "done" /\ l.run = 1
    /\ Len(spec.epics) = 2 /\ spec.epics[1].title = spec.epics[2].title
    /\ Len(spec.epics[1].stories) = 1
    /\ Len(Creations(l.calls)) = 2
    /\ \E j, k \in 1..Len(l.calls) :
         /\ l.calls[j].op = "createIssue" /\ l.calls[j].in.parentId = 0
         /\ l.calls[k].op = "createIssue" /\ l.calls[k].in.parentId = l.calls[j].id
    /\ Cardinality({a \in 1..Len(l.report) : l.report[a].entity = "epic"
                      /\ l.report[a].status = "Created"}) = 1

\* ------------------------------------------------------ one project per name
\* the projects whose name is the given one but for letter case and
\* surrounding whitespace
SameName(P, name) ==
  {i \in 1..Len(P) : ToLower(Trim(P[i].name)) = ToLower(Trim(name))}

\* C35: the project of a spec is looked up by its trimmed name without regard
\* to letter case.  A run whose spec names an existing project in another
\* case or with surrounding whitespace reconciles that project and creates
\* none; a project is created only when no project has the name, and over any
\* sequence of runs with such spellings the tracker never holds two of them.
C35_OneProjectPerName ==
  [][/\ Cardinality(SameName(remoteProjects, spec.project.name)) <= 1 =>
          Cardinality(SameName(remoteProjects', spec.project.name)) <= 1
     /\ \A p \in Procs :
          LET l == loc[p]
              l2 == loc'[p]
              calls == NewCalls(l, l2)
          IN (l.pc \in {"getProject", "ensureProject"} /\ l2 # l) =>
               /\ (\E c \in calls : c.op = "createProject") =>
                    /\ SameName(remoteProjects, spec.project.name) = {}
                    /\ Cardinality(SameName(remoteProjects', spec.project.name)) = 1
               /\ (l.pc = "getProject" /\ l2.pc = "ensureProject"
                   /\ SameName(remoteProjects, spec.project.name) # {}) =>
                    l2.project \in SameName(remoteProjects, spec.project.name)
               /\ SameName(remoteProjects, spec.project.name) # {} =>
                    remoteProjects' \in
                      {remoteProjects} \cup
                      {[remoteProjects EXCEPT ![i].description = d] :
                         i \in SameName(remoteProjects, spec.project.name),
                         d \in {spec.project.description}}]_vars

\* a first run created the project, the spec's name was then written in
\* another spelling, and the second run has finished: it reconciled the
\* project the first run created, and the tracker holds one
C35_Witness ==
  \E p \in Procs :
    LET l == loc[p] IN
    /\ l.pc = "done" /\ l.run = 2
    /\ Len(l.snap0) = Len(OtherIssues)
    /\ Cardinality(SameName(remoteProjects, spec.project.name)) = 1
    /\ \A i \in SameName(remoteProjects, spec.project.name) :
         remoteProjects[i].name # spec.project.name
         /\ remoteProjects[i].name # Trim(spec.project.name)
    /\ Len(remoteProjects) = 2
    /\ l.report[1].entity = "project" /\ l.report[1].status # "Created"

\* ---------------------------------------------------------- a move that fails
\* the reasons for which moveIssueByKeyToState throws on its own
MoveRefusals ==
  {"Issue key is required.", "Issue not found", "State name is required.",
   "Issue has no team and cannot be moved.", "State not found in team workflow"}

\* C36: a move fails, and asks for no update, when its key is empty or names
\* no issue, when the state name is empty after trimming, when the issue has
\* no team, and when no state of the team has the name; the issues are then
\* as they were.
C36_FailedMoveWritesNothing ==
  [][LET o == issueOp
         o2 == issueOp'
         id == getIssueByKey(remoteIssues, o.issueKey)
     IN (o.kind = "move" /\ o2 # o /\ aborts' = aborts) =>
          /\ (o.pc = "getIssue" /\ Trim(o.issueKey) = "") =>
               o2.pc = "failed" /\ o2.error = "Issue key is required."
          /\ (o.pc = "getIssue" /\ Trim(o.issueKey) # "" /\ id = 0) =>
               o2.pc = "failed" /\ o2.error = "Issue not found"
          /\ (o.pc = "getIssue" /\ id # 0 /\ Trim(o.stateName) = "") =>
               o2.pc = "failed" /\ o2.error = "State name is required."
          /\ (o.pc = "getIssue" /\ id # 0 /\ Trim(o.stateName) # ""
              /\ ~Truthy(remoteIssues[id].teamId)) =>
               o2.pc = "failed" /\ o2.error = "Issue has no team and cannot be moved."
          /\ (o.pc = "getStates"
              /\ findStateByName(remoteStates, Trim(o.stateName)) = NoState) =>
               o2.pc = "failed" /\ o2.error = "State not found in team workflow"
          /\ o2.pc = "failed" =>
               /\ o2.error \in MoveRefusals
               /\ remoteIssues' = remoteIssues
               /\ CountOf(o2.calls, "updateIssue") = 0]_vars

\* a move of an issue that has a team to a state its workflow does not have
\* has failed after the states were listed
C36_Witness ==
  /\ issueOp.kind = "move" /\ issueOp.pc = "failed"
  /\ issueOp.error = "State not found in team workflow"
  /\ CountOf(issueOp.calls, "getWorkflowStatesByTeam") = 1
  /\ Truthy(issueOp.issue.teamId)
  /\ remoteStates # <<>>

\* ------------------------------------------- an assignment that fails midway
\* the issues of the fetched list, before the one the loop is at, that the
\* loop did not skip
TakenBefore(o) ==
  {k \in 1..(o.i - 1) : ~skipsIssue([o EXCEPT !.i = k])}

\* the ids of the updates an operation has sent, in the order it sent them
SentUpdateIds(calls) ==
  LET updates == SelectSeq(calls, LAMBDA c : c.op = "updateIssue")
  IN [k \in 1..Len(updates) |-> updates[k].id]

\* the issues of the fetched list the loop took, in the order of the list
TakenIds(o) ==
  LET taken == SelectSeq([k \in 1..Len(o.issues) |-> k],
                         LAMBDA k : k \in TakenBefore(o))
  IN [k \in 1..Len(taken) |-> o.issues[taken[k]].id]

\* C37: assignProjectIssues updates one issue after the other and undoes
\* nothing.  When the update of an issue fails the operation fails; the issues
\* it updated before, in the order of the list, are still assigned to the
\* current user, the issue whose update failed and the ones after it are as
\* they were fetched, and no step after the failure changes an issue.  When
\* the project is not found it fails before it fetches or updates an issue.
C37_AssignIsNotTransactional ==
  [][LET o == issueOp
         o2 == issueOp'
     IN (o.kind = "assignProjectIssues") =>
          /\ (o.pc = "updateIssue" /\ aborts' # aborts) =>
               /\ o2.pc = "failed" /\ o2.error = RemoteFailure
               /\ remoteIssues' = remoteIssues
               /\ SentUpdateIds(o2.calls) = TakenIds(o)
               /\ \A k \in TakenBefore(o) :
                    getIssueAssigneeId(remoteIssues'[o.issues[k].id]) = o.currentUser
               /\ \A k \in o.i..Len(o.issues) :
                    remoteIssues'[o.issues[k].id] = o.issues[k]
          /\ (o.pc = "failed" /\ o2.kind = o.kind /\ o2.n = o.n) =>
               remoteIssues' = remoteIssues
          /\ (o.pc = "getProjectByName" /\ aborts' = aborts
              /\ getProjectByName(remoteProjects, o.projectName) = 0) =>
               /\ o2.pc = "failed" /\ o2.error = "Project not found"
               /\ CountOf(o2.calls, "getIssuesByProject") = 0
               /\ CountOf(o2.calls, "updateIssue") = 0
               /\ remoteIssues' = remoteIssues]_vars

\* the update of an issue failed after an earlier issue was assigned and
\* before a later one was reached: the earlier one has the current user, the
\* later one still has nobody
C37_Witness ==
  /\ issueOp.kind = "assignProjectIssues" /\ issueOp.pc = "failed"
  /\ issueOp.error = RemoteFailure
  /\ issueOp.assignedCount >= 1
  /\ issueOp.i < Len(issueOp.issues)
  /\ CountOf(issueOp.calls, "updateIssue") = issueOp.assignedCount
  /\ \E k \in 1..(issueOp.i - 1) :
       /\ getIssueAssigneeId(issueOp.issues[k]) = NoUser
       /\ getIssueAssigneeId(remoteIssues[issueOp.issues[k].id]) = Viewer
  /\ getIssueAssigneeId(remoteIssues[issueOp.issues[Len(issueOp.issues)].id]) = NoUser

\* ------------------------------------------------------ the client and its user
\* Two instances of LinearApiClient and the calls made on them.  Of each
\* instance the model keeps the private field currentUser; of each call the
\* operation execute was entered with, the await it has reached, the user it
\* holds, what it returned and the error it threw.  viewer is the record the
\* tracker returns for the authenticated user and fetches counts, per instance,
\* the reads of client.viewer that returned.
Ports == {"port1", "port2"}

Callers == {"c1", "c2"}

\* the bound on the calls made in one behaviour
MaxCalls == 3

\* the authenticated user as the tracker returns it, before and after the
\* display name of the account is edited
ViewerNodes ==
  << [id |-> Viewer, displayName |-> "Me"], [id |-> Viewer, displayName |-> "Me too"] >>

\* the null of the field currentUser
NoViewer == [id |-> NoUser, displayName |-> ""]

\* what the SDK throws: an Error with a message, or a value that is no Error
Thrown(isError, message) ==
  [typed |-> FALSE, isError |-> isError, operation |-> "", message |-> message,
   cause |-> <<>>]

SdkFailures == {Thrown(TRUE, <<"Network down">>), Thrown(FALSE, <<>>)}

NoFailure == Thrown(FALSE, <<"none">>)

\* new LinearApiClientError(operation, message, cause)
LinearApiClientError(operation, message, cause) ==
  [typed |-> TRUE, isError |-> TRUE, operation |-> operation, message |-> message,
   cause |-> cause]

\* a wrapper that names the operation it is in on every failure it lets out
executeRenaming(operation, error) ==
  LET message == IF error.isError THEN error.message ELSE <<"Unknown error">>
  IN IF error.typed
     THEN LinearApiClientError(operation, error.message, error.cause)
     ELSE LinearApiClientError(operation,
                               <<RemoteFailure, operation>> \o message, <<error>>)

\* the catch of execute(operation, action) for an error the action threw
execute(operation, error) ==
  LET message == IF error.isError THEN error.message ELSE <<"Unknown error">>
  IN IF error.typed THEN error
     ELSE LinearApiClientError(operation,
                               <<RemoteFailure, operation>> \o message, <<error>>)

PortOperations == {"get-current-user", "create-issue", "find-user-by-identifier"}

\* the assigneeId of the input of createIssue (NoUser: the input has none) and
\* the identifier of findUserByIdentifier
PortAssignees == {NoUser, "u9"}
PortIdentifiers == {" Atul ", "Ghost", "  "}

PortCall(pc, port, operation, assigneeId, identifier) ==
  [pc |-> pc, port |-> port, operation |-> operation, assigneeId |-> assigneeId,
   identifier |-> identifier, user |-> NoViewer, found |-> NoUser,
   error |-> NoFailure, fetched |-> FALSE]

IdleCall == PortCall("idle", "port1", "none", NoUser, "")

InitPorts ==
  [currentUser |-> [port \in Ports |-> NoViewer],
   viewer |-> ViewerNodes[1],
   fetches |-> [port \in Ports |-> 0],
   call |-> [c \in Callers |-> IdleCall],
   n |-> 0]

PortUnchanged ==
  UNCHANGED <<spec, remoteProjects, remoteMilestones, loc, remoteStates,
              remoteComments>>

\* a field currentUser that every instance reads and writes
currentUserOfAnyPort(o, port) ==
  IF \A q \in Ports : o.currentUser[q] = NoViewer THEN NoViewer
  ELSE o.currentUser[CHOOSE q \in Ports :
                       /\ o.currentUser[q] # NoViewer
                       /\ (o.currentUser[port] # NoViewer => q = port)]

\* this.currentUser of an instance
currentUserOf(o, port) == o.currentUser[port]

\* getCurrentUser up to its first await, alone or inside createIssue: the
\* cached user is returned when there is one, else client.viewer is awaited
getCurrentUser(o, call) ==
  LET user == currentUserOf(o, call.port)
  IN IF user = NoViewer THEN [call EXCEPT !.pc = "viewer"]
     ELSE IF call.operation = "create-issue"
       THEN [call EXCEPT !.user = user, !.pc = "createIssue"]
     ELSE [call EXCEPT !.user = user, !.pc = "done"]

\* findUserByIdentifier up to its first await
findUserEnter(call) ==
  IF Trim(call.identifier) = ""
  THEN [call EXCEPT
          !.pc = "failed",
          !.error = execute("find-user-by-identifier",
                            LinearApiClientError(
                              "find-user-by-identifier",
                              <<"User identifier is required and cannot be empty.">>,
                              <<>>))]
  ELSE [call EXCEPT !.pc = "users"]

\* getCurrentUser, createIssue or findUserByIdentifier is called on an instance
InvokePort(c) ==
  /\ issueOp.call[c].pc \in {"idle", "done", "failed"}
  /\ issueOp.n < MaxCalls
  /\ \E port \in Ports, operation \in PortOperations :
       \E assigneeId \in (IF operation = "create-issue" THEN PortAssignees ELSE {NoUser}),
          identifier \in (IF operation = "find-user-by-identifier"
                          THEN PortIdentifiers ELSE {""}) :
         LET call == PortCall("entered", port, operation, assigneeId, identifier)
         IN issueOp' =
              [issueOp EXCEPT
                 !.n = @ + 1,
                 !.call[c] = IF operation = "find-user-by-identifier"
                             THEN findUserEnter(call)
                             ELSE getCurrentUser(issueOp, call)]
  /\ UNCHANGED <<remoteIssues, aborts>>
  /\ PortUnchanged

\* await this.client.viewer returns: the user is stored in the instance
ViewerArrives(c) ==
  LET call == issueOp.call[c] IN
  /\ call.pc = "viewer"
  /\ issueOp' =
       [issueOp EXCEPT
          !.currentUser[call.port] = issueOp.viewer,
          !.fetches[call.port] = @ + 1,
          !.call[c] = [call EXCEPT
                         !.user = issueOp.viewer,
                         !.fetched = TRUE,
                         !.pc = IF call.operation = "create-issue"
                                THEN "createIssue" ELSE "done"]]
  /\ UNCHANGED <<remoteIssues, aborts>>
  /\ PortUnchanged

\* this.client.createIssue({...input, assigneeId: input.assigneeId ?? currentUser.id})
CreateIssueArrives(c) ==
  LET call == issueOp.call[c]
      assigneeId == IF call.assigneeId # NoUser THEN call.assigneeId ELSE call.user.id
      input == issueCreate(TeamId, 1, 0, "New", <<>>, assigneeId)
  IN /\ call.pc = "createIssue"
     /\ remoteIssues' = Append(remoteIssues, NewIssue(remoteIssues, input.fields, input.in))
     /\ issueOp' = [issueOp EXCEPT !.call[c] = [call EXCEPT !.pc = "done"]]
     /\ UNCHANGED aborts
     /\ PortUnchanged

\* await this.getUsers() returns and the user is looked for
UsersArrive(c) ==
  LET call == issueOp.call[c] IN
  /\ call.pc = "users"
  /\ issueOp' =
       [issueOp EXCEPT
          !.call[c] = [call EXCEPT !.found = findUserByIdentifier(call.identifier),
                                   !.pc = "done"]]
  /\ UNCHANGED <<remoteIssues, aborts>>
  /\ PortUnchanged

\* the operations whose execute the pending call of the SDK was made in, the
\* innermost first
Executing(call) ==
  CASE call.pc = "viewer" /\ call.operation = "create-issue" ->
         <<"get-current-user", "create-issue">>
    [] call.pc = "viewer" -> <<"get-current-user">>
    [] call.pc = "createIssue" -> <<"create-issue">>
    [] call.pc = "users" -> <<"get-users", "find-user-by-identifier">>

\* an error on its way out through the executes it was thrown in
RECURSIVE Leaving(_, _)
Leaving(operations, error) ==
  IF operations = <<>> THEN error
  ELSE Leaving(Tail(operations), execute(Head(operations), error))

\* the call of the SDK a port operation is waiting for throws
PortFail(c) ==
  LET call == issueOp.call[c] IN
  /\ call.pc \in {"viewer", "createIssue", "users"}
  /\ aborts < MaxAborts
  /\ aborts' = aborts + 1
  /\ \E thrown \in SdkFailures :
       issueOp' =
         [issueOp EXCEPT
            !.call[c] = [call EXCEPT !.pc = "failed",
                                     !.error = Leaving(Executing(call), thrown)]]
  /\ UNCHANGED remoteIssues
  /\ PortUnchanged

\* the display name of the account is edited in the tracker
ViewerChanges ==
  /\ issueOp.viewer = ViewerNodes[1]
  /\ issueOp' = [issueOp EXCEPT !.viewer = ViewerNodes[2]]
  /\ UNCHANGED <<remoteIssues, aborts>>
  /\ PortUnchanged

PortInit ==
  /\ spec = BodySpec(<<"a">>)
  /\ remoteProjects = BodyRemote.projects
  /\ remoteMilestones = BodyRemote.milestones
  /\ remoteIssues = BodyRemote.issues
  /\ loc = [p \in Procs |-> InitLoc]
  /\ aborts = 0
  /\ remoteStates = TeamStates
  /\ remoteComments = <<>>
  /\ issueOp = InitPorts

PortNext ==
  \/ \E c \in Callers :
       \/ InvokePort(c)
       \/ ViewerArrives(c)
       \/ CreateIssueArrives(c)
       \/ UsersArrive(c)
       \/ PortFail(c)
  \/ ViewerChanges

PortSpec == PortInit /\ [][PortNext]_vars

\* ------------------------------------------------------- the user is fetched once
\* C38: an instance of the client fetches the authenticated user once.  A call
\* of getCurrentUser or createIssue made on an instance that holds the user
\* returns or uses the held record and reads client.viewer no more; one made
\* on an instance that holds none fetches it, whatever another instance holds;
\* a fetch that fails leaves the field as it was; and the field of an instance
\* only changes when a fetch made on that instance returns.
C38_UserIsFetchedOncePerPort ==
  [][/\ \A c \in Callers :
          LET call == issueOp.call[c]
              call2 == issueOp'.call[c]
              held == issueOp.currentUser[call2.port]
          IN /\ (call.pc \in {"idle", "done", "failed"} /\ call2 # call
                 /\ call2.operation \in {"get-current-user", "create-issue"}) =>
                  /\ held # NoViewer =>
                       /\ call2.pc # "viewer" /\ call2.user = held /\ ~call2.fetched
                       /\ issueOp'.fetches = issueOp.fetches
                       /\ issueOp'.currentUser = issueOp.currentUser
                  /\ held = NoViewer => call2.pc = "viewer"
             /\ (call.pc = "viewer" /\ call2.pc = "failed") =>
                  /\ issueOp'.currentUser = issueOp.currentUser
                  /\ issueOp'.fetches = issueOp.fetches
             /\ (call.pc = "createIssue" /\ call2.pc = "done") =>
                  /\ issueOp'.fetches = issueOp.fetches
                  /\ remoteIssues'[Len(remoteIssues')].assigneeId =
                       IF call.assigneeId # NoUser THEN call.assigneeId ELSE call.user.id
     /\ \A port \in Ports :
          issueOp'.currentUser[port] # issueOp.currentUser[port] =>
            /\ issueOp'.currentUser[port] = issueOp.viewer
            /\ issueOp'.fetches[port] = issueOp.fetches[port] + 1
            /\ \E c \in Callers :
                 /\ issueOp.call[c].pc = "viewer" /\ issueOp.call[c].port = port
                 /\ issueOp'.call[c].fetched]_vars

\* one caller fetched the user on an instance, the account was then edited,
\* and a createIssue made on the same instance by the other caller went on
\* with the record the instance held, which the tracker no longer returns;
\* the instance has read client.viewer once and the other instance holds none
C38_Witness ==
  \E c, d \in Callers : \E port \in Ports :
    /\ c # d
    /\ issueOp.call[c].operation = "get-current-user" /\ issueOp.call[c].pc = "done"
    /\ issueOp.call[c].port = port /\ issueOp.call[c].fetched
    /\ issueOp.call[d].operation = "create-issue" /\ issueOp.call[d].pc = "done"
    /\ issueOp.call[d].port = port /\ ~issueOp.call[d].fetched
    /\ issueOp.call[d].user = issueOp.call[c].user
    /\ issueOp.call[d].user # issueOp.viewer
    /\ issueOp.fetches[port] = 1
    /\ \A q \in Ports \ {port} : issueOp.currentUser[q] = NoViewer

\* ------------------------------------------------- failures leave the port typed
\* C39: every failure that leaves an operation of the client is a
\* LinearApiClientError.  What the SDK throws is wrapped once, by the
\* operation it was thrown in: the error names that operation, its message is
\* the failure text with that name and the message of what was thrown
\* ("Unknown error" for a value that is no Error), and its cause is what was
\* thrown.  An error that is already a LinearApiClientError goes through the
\* outer operation as it is, so the failure of the getCurrentUser inside
\* createIssue names get-current-user and the failure of the getUsers inside
\* findUserByIdentifier names get-users.
C39_FailuresAreTyped ==
  [][\A c \in Callers :
       LET call == issueOp.call[c]
           call2 == issueOp'.call[c]
           e == call2.error
       IN (call2.pc = "failed" /\ call.pc # "failed") =>
            /\ e.typed
            /\ call.pc \in {"viewer", "createIssue", "users"} =>
                 /\ e.operation = Head(Executing(call))
                 /\ Len(e.cause) = 1 /\ e.cause[1] \in SdkFailures
                 /\ e.message = <<RemoteFailure, Head(Executing(call))>> \o
                                (IF e.cause[1].isError THEN e.cause[1].message
                                 ELSE <<"Unknown error">>)
            /\ (call.pc = "viewer" /\ call.operation = "create-issue") =>
                 e.operation = "get-current-user"
            /\ call.pc = "users" => e.operation = "get-users"
            /\ call.pc \in {"idle", "done"} =>
                 /\ call2.operation = "find-user-by-identifier"
                 /\ e = LinearApiClientError(
                          "find-user-by-identifier",
                          <<"User identifier is required and cannot be empty.">>, <<>>)]_vars

\* a createIssue has failed because the fetch of the user inside it threw a
\* value that is no Error: the error names get-current-user
C39_Witness ==
  \E c \in Callers :
    LET call == issueOp.call[c] IN
    /\ call.operation = "create-issue" /\ call.pc = "failed"
    /\ call.error.typed
    /\ call.error.operation = "get-current-user"
    /\ call.error.message = <<RemoteFailure, "get-current-user", "Unknown error">>
    /\ call.error.cause = <<Thrown(FALSE, <<>>)>>

\* ------------------------------------------------------------- the spec file
\* The values JSON.parse returns, by their type: a string carries its text, an
\* array its items, an object its fields.
JUndefined == [type |-> "undefined"]
JNull == [type |-> "null"]
JNumber == [type |-> "number"]
JString(text) == [type |-> "string", text |-> text]
JArray(items) == [type |-> "array", items |-> items]
JObject(fields) == [type |-> "object", fields |-> fields]

\* value[key]: undefined for a key the value does not have
Get(value, key) ==
  IF value.type = "object" /\ key \in DOMAIN value.fields THEN value.fields[key]
  ELSE JUndefined

\* typeof value === "object" && value !== null
isRecord(value) == value.type \in {"object", "array"}

isString(value) == value.type = "string"

\* a test that takes any string with a character in it
isNonEmptyStringUntrimmed(value) == isString(value) /\ value.text # ""

\* isString(value) && value.trim().length > 0
isNonEmptyString(value) == isString(value) /\ Trim(value.text) # ""

\* Array.prototype.every over the items of an array
Every(array, Test(_)) == \A k \in 1..Len(array.items) : Test(array.items[k])

isStorySpec(value) ==
  /\ isRecord(value)
  /\ isNonEmptyString(Get(value, "title")) /\ isString(Get(value, "description"))
  /\ Get(value, "assignee") # JUndefined => isString(Get(value, "assignee"))
  /\ Get(value, "milestone") # JUndefined => isString(Get(value, "milestone"))

isEpicSpec(value) ==
  /\ isRecord(value)
  /\ isNonEmptyString(Get(value, "title")) /\ isString(Get(value, "description"))
  /\ Get(value, "assignee") # JUndefined => isString(Get(value, "assignee"))
  /\ Get(value, "milestone") # JUndefined => isString(Get(value, "milestone"))
  /\ Get(value, "stories") # JUndefined =>
       /\ Get(value, "stories").type = "array"
       /\ Every(Get(value, "stories"), isStorySpec)

isMilestoneSpec(value) == isRecord(value) /\ isNonEmptyString(Get(value, "name"))

isProjectSpec(value) ==
  /\ isRecord(value)
  /\ isRecord(Get(value, "project"))
  /\ isNonEmptyString(Get(Get(value, "project"), "name"))
  /\ isString(Get(Get(value, "project"), "description"))
  /\ Get(value, "milestones") # JUndefined =>
       /\ Get(value, "milestones").type = "array"
       /\ Every(Get(value, "milestones"), isMilestoneSpec)
  /\ Get(value, "epics") # JUndefined =>
       /\ Get(value, "epics").type = "array"
       /\ Every(Get(value, "epics"), isEpicSpec)

\* the items of an optional array, and the text of an optional string
ItemsOf(value) == IF value.type = "array" THEN value.items ELSE <<>>
TextOf(value) == IF value.type = "string" THEN value.text ELSE NoField

\* a document that passed isProjectSpec, as the sync engine reads it
AsStorySpec(value) ==
  [title |-> Get(value, "title").text, description |-> Get(value, "description").text,
   assignee |-> TextOf(Get(value, "assignee")),
   milestone |-> TextOf(Get(value, "milestone"))]

AsEpicSpec(value) ==
  [title |-> Get(value, "title").text, description |-> Get(value, "description").text,
   assignee |-> TextOf(Get(value, "assignee")),
   milestone |-> TextOf(Get(value, "milestone")),
   stories |-> [k \in 1..Len(ItemsOf(Get(value, "stories"))) |->
                  AsStorySpec(ItemsOf(Get(value, "stories"))[k])]]

AsProjectSpec(value) ==
  [project |-> [name |-> Get(Get(value, "project"), "name").text,
                description |-> Get(Get(value, "project"), "description").text],
   milestones |-> [k \in 1..Len(ItemsOf(Get(value, "milestones"))) |->
                     [name |-> Get(ItemsOf(Get(value, "milestones"))[k], "name").text]],
   epics |-> [k \in 1..Len(ItemsOf(Get(value, "epics"))) |->
                AsEpicSpec(ItemsOf(Get(value, "epics"))[k])]]

\* a document of one milestone and one epic with one story, from the values of
\* its eight fields
Document(name, description, milestoneName, title, epicDescription, milestone,
         storyTitle, storyDescription) ==
  JObject(
    [project |-> JObject([name |-> name, description |-> description]),
     milestones |-> JArray(<<JObject([name |-> milestoneName])>>),
     epics |->
       JArray(<<JObject(
         [title |-> title, description |-> epicDescription, milestone |-> milestone,
          stories |->
            JArray(<<JObject([title |-> storyTitle,
                              description |-> storyDescription])>>)])>>)])

\* what a field that holds a name, and one that holds a description, may hold
JNames(text) == {JString(text), JString("  "), JString(""), JNumber, JUndefined}
JDescriptions == {JString(<<"a">>), JString(<<>>), JNumber, JUndefined}

\* the documents of the model: at most one of the eight fields is not as it
\* should be, or a part of the document is missing or of another type
Documents ==
  {Document(name, JString(<<"a">>), JString("Phase 1"), JString("Epic A"),
            JString(<<"a">>), JString("Phase 1"), JString("S1"), JString(<<"a">>)) :
     name \in JNames("Engine")}
  \cup
  {Document(JString("Engine"), description, JString("Phase 1"), JString("Epic A"),
            JString(<<"a">>), JString("Phase 1"), JString("S1"), JString(<<"a">>)) :
     description \in JDescriptions}
  \cup
  {Document(JString("Engine"), JString(<<"a">>), milestoneName, JString("Epic A"),
            JString(<<"a">>), JString("Phase 1"), JString("S1"), JString(<<"a">>)) :
     milestoneName \in JNames("Phase 1")}
  \cup
  {Document(JString("Engine"), JString(<<"a">>), JString("Phase 1"), title,
            JString(<<"a">>), JString("Phase 1"), JString("S1"), JString(<<"a">>)) :
     title \in JNames("Epic A")}
  \cup
  {Document(JString("Engine"), JString(<<"a">>), JString("Phase 1"), JString("Epic A"),
            epicDescription, JString("Phase 1"), JString("S1"), JString(<<"a">>)) :
     epicDescription \in JDescriptions}
  \cup
  {Document(JString("Engine"), JString(<<"a">>), JString("Phase 1"), JString("Epic A"),
            JString(<<"a">>), milestone, JString("S1"), JString(<<"a">>)) :
     milestone \in JNames("Phase 1")}
  \cup
  {Document(JString("Engine"), JString(<<"a">>), JString("Phase 1"), JString("Epic A"),
            JString(<<"a">>), JString("Phase 1"), storyTitle, JString(<<"a">>)) :
     storyTitle \in JNames("S1")}
  \cup
  {Document(JString("Engine"), JString(<<"a">>), JString("Phase 1"), JString("Epic A"),
            JString(<<"a">>), JString("Phase 1"), JString("S1"), storyDescription) :
     storyDescription \in JDescriptions}
  \cup
  {JNull, JArray(<<>>), JObject([project |-> JString("Engine")]),
   JObject([project |-> JObject([name |-> JString("Engine"),
                                 description |-> JString(<<"a">>)])]),
   JObject([project |-> JObject([name |-> JString("Engine"),
                                 description |-> JString(<<"a">>)]),
            milestones |-> JString("Phase 1")]),
   JObject([project |-> JObject([name |-> JString("Engine"),
                                 description |-> JString(<<"a">>)]),
            epics |-> JArray(<<JNull>>)])}

\* a file: whether it can be read, whether its text is JSON, and the document
\* the text denotes
File(readable, json, document) ==
  [readable |-> readable, json |-> json, document |-> document]

Files ==
  {File(FALSE, FALSE, JNull), File(TRUE, FALSE, JNull)}
  \cup {File(TRUE, TRUE, document) : document \in Documents}

\* the sync command that is running: pc the await it has reached, file the
\* file it was given, error the message it threw, n the number of commands
\* invoked so far
SyncCommand(pc, n, file, error) == [pc |-> pc, n |-> n, file |-> file, error |-> error]

\* loadProjectSpecFromFile from the return of readFile on
loadProjectSpecFromFile(o) ==
  IF ~o.file.readable THEN [o EXCEPT !.pc = "failed", !.error = "Failed to read spec file"]
  ELSE IF ~o.file.json THEN [o EXCEPT !.pc = "failed", !.error = "Invalid JSON"]
  ELSE IF ~isProjectSpec(o.file.document)
    THEN [o EXCEPT !.pc = "failed", !.error = "Invalid ProjectSpec"]
  ELSE [o EXCEPT !.pc = "loaded"]

\* syncSpec(filePath) is called
InvokeSyncSpec ==
  /\ issueOp.pc \in {"idle", "failed", "loaded"}
  /\ \A p \in Procs : loc[p].pc \in {"idle", "done", "aborted"}
  /\ issueOp.n < MaxOps
  /\ \E file \in Files : issueOp' = SyncCommand("readFile", issueOp.n + 1, file, "")
  /\ UNCHANGED <<spec, remoteProjects, remoteMilestones, remoteIssues, loc, aborts,
                 remoteStates, remoteComments>>

\* await readFile(absolutePath, "utf8"), JSON.parse and isProjectSpec: the
\* spec is handed to syncProject when all three pass
ReadFile ==
  /\ issueOp.pc = "readFile"
  /\ issueOp' = loadProjectSpecFromFile(issueOp)
  /\ spec' = IF issueOp'.pc = "loaded" THEN AsProjectSpec(issueOp.file.document)
             ELSE spec
  /\ UNCHANGED <<remoteProjects, remoteMilestones, remoteIssues, loc, aborts,
                 remoteStates, remoteComments>>

\* syncProject(spec) and its steps, for the spec that was loaded
SyncLoaded == issueOp.pc = "loaded" /\ Next

FileInit ==
  /\ spec = ProjectSpec(<<>>, <<>>)
  /\ \/ /\ remoteProjects = BodyRemote.projects
        /\ remoteMilestones = BodyRemote.milestones
        /\ remoteIssues = BodyRemote.issues
     \/ /\ remoteProjects = <<Project("Other", <<>>, TRUE)>>
        /\ remoteMilestones = <<>>
        /\ remoteIssues = OtherIssues
  /\ loc = [p \in Procs |-> InitLoc]
  /\ aborts = 0
  /\ remoteStates = TeamStates
  /\ remoteComments = <<>>
  /\ issueOp = SyncCommand("idle", 0, File(FALSE, FALSE, JNull), "")

FileNext == InvokeSyncSpec \/ ReadFile \/ SyncLoaded

FileSpec == FileInit /\ [][FileNext]_vars

\* ----------------------------------------------------- validation comes first
\* a name that is a string and is empty once trimmed
EmptyName(value) == value.type = "string" /\ Trim(value.text) = ""

\* the items of an optional array, as a set
ItemSet(value) == {ItemsOf(value)[k] : k \in 1..Len(ItemsOf(value))}

\* the document has a project name, an epic title or a story title that is
\* empty once trimmed, a description that is not a string, or a milestone
\* whose name is empty once trimmed
Defective(document) ==
  \/ EmptyName(Get(Get(document, "project"), "name"))
  \/ Get(Get(document, "project"), "description").type # "string"
  \/ \E m \in ItemSet(Get(document, "milestones")) : EmptyName(Get(m, "name"))
  \/ \E e \in ItemSet(Get(document, "epics")) :
       \/ EmptyName(Get(e, "title"))
       \/ Get(e, "description").type # "string"
       \/ \E story \in ItemSet(Get(e, "stories")) :
            \/ EmptyName(Get(story, "title"))
            \/ Get(story, "description").type # "string"

Remote3 == <<remoteProjects, remoteMilestones, remoteIssues>>

\* C40: the sync command validates the spec file before it acts.  It fails
\* with the message of the read when the file cannot be read, with the one of
\* the parse when its text is not JSON, and with the one of the schema when
\* the document is defective; a command that failed has made no call on the
\* tracker and changed nothing in it, and the engine only runs for a document
\* that passed all three.
C40_ValidatedBeforeAnyCall ==
  [][LET o == issueOp
         o2 == issueOp'
         file == o.file
     IN /\ (o.pc = "readFile" /\ o2 # o) =>
             /\ ~file.readable =>
                  o2.pc = "failed" /\ o2.error = "Failed to read spec file"
             /\ (file.readable /\ ~file.json) =>
                  o2.pc = "failed" /\ o2.error = "Invalid JSON"
             /\ (file.readable /\ file.json /\ Defective(file.document)) =>
                  o2.pc = "failed" /\ o2.error = "Invalid ProjectSpec"
             /\ loc' = loc /\ Remote3' = Remote3
             /\ o2.pc = "failed" => spec' = spec
        /\ o.pc \in {"readFile", "failed"} => (loc' = loc /\ Remote3' = Remote3)
        /\ (loc' # loc \/ Remote3' # Remote3) =>
             /\ o.pc = "loaded" /\ file.readable /\ file.json
             /\ ~Defective(file.document)
             /\ spec = AsProjectSpec(file.document)]_vars

\* a sync command has failed on the schema because the title of a story is
\* blank, after an earlier command had completed a run: the tracker is as
\* that run left it
C40_Witness ==
  /\ issueOp.pc = "failed" /\ issueOp.error = "Invalid ProjectSpec"
  /\ issueOp.n = 2
  /\ \E e \in ItemSet(Get(issueOp.file.document, "epics")) :
       \E story \in ItemSet(Get(e, "stories")) : Get(story, "title") = JString("  ")
  /\ \E p \in Procs :
       /\ loc[p].pc = "done" /\ loc[p].run = 1
       /\ MutationsRemain(loc[p], remoteProjects, remoteIssues)
       /\ CountOf(loc[p].calls, "createIssue") >= 1

====
